---- MODULE Spec2Model ----
(***************************************************************************)
(* PM scheduling engine of AIT_CMMS (pm_scheduler.py): DateParser,         *)
(* CompletionRecordRepository, PMEligibilityChecker, PMAssignmentGenerator *)
(* and PMSchedulingService, over a data store of the tables they query.    *)
(*                                                                         *)
(* Dates are day numbers relative to the current date: 0 is today, -3 is   *)
(* three days ago, 7 is a week ahead.  datetime.now() is day 0 plus        *)
(* time_of_day (0: exactly midnight, 1: later in the day).  When the       *)
(* calendar advances, every stored date moves down by the days passed.     *)
(* Free-text payload that no decision reads (description, scheduled_date)  *)
(* is left out; reason strings are kept as their fixed wording.            *)
(***************************************************************************)
EXTENDS Integers, Sequences, FiniteSets, TLC

VARIABLES
    \* ---- data store (tables the scheduler queries) ----
    equipment,              \* equipment table: set of rows, bfm_equipment_no UNIQUE
    pm_completions,         \* pm_completions table: set of rows
    weekly_pm_schedules,    \* weekly_pm_schedules table: set of rows
    pm_templates,           \* pm_templates table: set of <<bfm_equipment_no, pm_type>>
    cannot_find_assets,     \* cannot_find_assets table: set of [bfm_equipment_no, status]
    run_to_failure_assets,  \* run_to_failure_assets table: set of bfm_equipment_no
    deactivated_assets,     \* deactivated_assets table: set of bfm_equipment_no
    priority_files,         \* the files PM_LIST_A220_1/2/3.csv beside the script
    time_of_day,            \* datetime.now() time part: 0 midnight, 1 later
    \* ---- scheduler objects ----
    completion_cache,       \* CompletionRecordRepository._completion_cache
    scheduled_cache,        \* CompletionRecordRepository._scheduled_cache
    uncompleted_cache,      \* CompletionRecordRepository._uncompleted_cache
    next_annual_cache,      \* PMEligibilityChecker._next_annual_cache
    custom_template_cache,  \* PMAssignmentGenerator._custom_template_cache
    priority_map,           \* PMSchedulingService.priority_map
    \* ---- calls and what they returned ----
    pc,                     \* "idle", "loaded", "checked", "generated", "raised", "persisted"
    elig_call,              \* arguments of the last check_eligibility call
    result,                 \* its PMEligibilityResult
    gen_call,               \* arguments of the last generate_assignments call
    potential_assignments,  \* its local candidate list after the sort
    assignments,            \* the list it returned
    repo_call,              \* the last direct call of a CompletionRecordRepository method
    run_log,                \* the last generate_weekly_schedule call that returned:
                            \* its cursor.execute and check_eligibility calls, in order
    \* ---- calendar of the weekly routine ----
    day_of_week,            \* days since the current week's start, 0..6
    work_day,               \* day of the week on which technicians complete PMs
    weeks_elapsed           \* weeks passed since the start (capped by MaxWeeks)

storeVars == <<equipment, pm_completions, weekly_pm_schedules, pm_templates,
               cannot_find_assets, run_to_failure_assets, deactivated_assets,
               priority_files>>
cacheVars == <<completion_cache, scheduled_cache, uncompleted_cache,
               next_annual_cache, custom_template_cache>>
callVars  == <<elig_call, result, gen_call, potential_assignments, assignments,
               repo_call, run_log>>
clockVars == <<day_of_week, work_day, weeks_elapsed>>
vars == <<storeVars, time_of_day, cacheVars, priority_map, pc, callVars, clockVars>>

-----------------------------------------------------------------------------
(* Enumerations and records                                                *)

WEEKLY    == "Weekly"
MONTHLY   == "Monthly"
SIX_MONTH == "Six Month"
ANNUAL    == "Annual"
PMType    == {WEEKLY, MONTHLY, SIX_MONTH, ANNUAL}

DUE                == "due"
NOT_DUE            == "not_due"
RECENTLY_COMPLETED == "recently_completed"
CONFLICTED         == "conflicted"
PMStatus           == {DUE, NOT_DUE, RECENTLY_COMPLETED, CONFLICTED}

\* Python None / an empty Optional is <<>>, a present value v is <<v>>.
None    == <<>>
Some(v) == <<v>>

\* dataclass Equipment (description left out)
Equipment(bfm_no, has_weekly, has_monthly, has_six_month, has_annual, last_weekly_date, last_monthly_date, last_six_month_date, last_annual_date, status, priority) ==
    [bfm_no |-> bfm_no, has_weekly |-> has_weekly, has_monthly |-> has_monthly,
     has_six_month |-> has_six_month, has_annual |-> has_annual,
     last_weekly_date |-> last_weekly_date, last_monthly_date |-> last_monthly_date,
     last_six_month_date |-> last_six_month_date, last_annual_date |-> last_annual_date,
     status |-> status, priority |-> priority]

\* dataclass CompletionRecord
CompletionRecord(bfm_no, pm_type, completion_date, technician) ==
    [bfm_no |-> bfm_no, pm_type |-> pm_type,
     completion_date |-> completion_date, technician |-> technician]

\* dataclass PMAssignment (description left out)
PMAssignment(bfm_no, pm_type, priority_score, reason, has_custom_template) ==
    [bfm_no |-> bfm_no, pm_type |-> pm_type, priority_score |-> priority_score,
     reason |-> reason, has_custom_template |-> has_custom_template]

\* NamedTuple PMEligibilityResult, priority_score and days_overdue default 0
PMEligibilityResult(status, reason, priority_score, days_overdue) ==
    [status |-> status, reason |-> reason,
     priority_score |-> priority_score, days_overdue |-> days_overdue]

-----------------------------------------------------------------------------
(* Date strings and DateParser                                             *)
(*                                                                         *)
(* A date string is [form, day, alt]: form tells which strptime formats    *)
(* the text matches, day the date the first matching format reads from it, *)
(* alt the date '%d/%m/%Y' reads from a text that '%m/%d/%Y' matches too.  *)
(*   "null"   None            "empty"  ''                                  *)
(*   "iso"    2024-03-01      "us"     03/25/2024 (only %m/%d/%Y matches)  *)
(*   "eu"     25/03/2024 (only %d/%m/%Y matches)                           *)
(*   "both"   03/04/2024 (%m/%d/%Y and %d/%m/%Y both match)                *)
(*   "slashiso" 2024/03/01    "dashus" 03-01-2024    "garbage" no format   *)

DateForms == {"null", "empty", "iso", "us", "eu", "both", "slashiso", "dashus", "garbage"}

DateStr(form, day) == [form |-> form, day |-> day, alt |-> day]
NullDate == DateStr("null", 0)
Iso(day) == DateStr("iso", day)

\* datetime.strptime(date_string, fmt): the parsed day, or None on ValueError
strptime(date_string, fmt) ==
    CASE fmt = "%Y-%m-%d" -> IF date_string.form = "iso" THEN Some(date_string.day) ELSE None
      [] fmt = "%m/%d/%Y" -> IF date_string.form \in {"us", "both"}
                             THEN Some(date_string.day) ELSE None
      [] fmt = "%d/%m/%Y" -> IF date_string.form = "eu" THEN Some(date_string.day)
                             ELSE IF date_string.form = "both" THEN Some(date_string.alt)
                             ELSE None
      [] fmt = "%Y/%m/%d" -> IF date_string.form = "slashiso" THEN Some(date_string.day) ELSE None
      [] fmt = "%m-%d-%Y" -> IF date_string.form = "dashus" THEN Some(date_string.day) ELSE None

RECURSIVE TryFormats(_, _)
TryFormats(date_string, formats) ==
    IF formats = <<>> THEN None
    ELSE IF strptime(date_string, Head(formats)) # None
         THEN strptime(date_string, Head(formats))
         ELSE TryFormats(date_string, Tail(formats))

\* Mutant of parse_flexible: a text no format matches is read as a date.
parse_flexible_ReadsAnything(date_string) ==
    IF date_string.form \in {"null", "empty"} THEN None
    ELSE IF strptime(date_string, "%Y-%m-%d") # None
         THEN strptime(date_string, "%Y-%m-%d")
         ELSE IF TryFormats(date_string, <<"%m/%d/%Y", "%d/%m/%Y", "%Y/%m/%d", "%m-%d-%Y">>)
                    # None
         THEN TryFormats(date_string, <<"%m/%d/%Y", "%d/%m/%Y", "%Y/%m/%d", "%m-%d-%Y">>)
         ELSE Some(date_string.day)

parse_flexible(date_string) ==
    IF date_string.form \in {"null", "empty"} THEN None
    ELSE IF strptime(date_string, "%Y-%m-%d") # None
         THEN strptime(date_string, "%Y-%m-%d")
         ELSE TryFormats(date_string, <<"%m/%d/%Y", "%d/%m/%Y", "%Y/%m/%d", "%m-%d-%Y">>)

\* (datetime.now() - d).days for a date d at midnight
DaysSince(d) == 0 - d
\* (d - datetime.now()).days: the floor of a difference that is negative by the
\* time of day
DaysUntil(d) == d - time_of_day

-----------------------------------------------------------------------------
(* CompletionRecordRepository                                              *)

\* The window of completion records check_eligibility asks for (days=400).
CompletionWindowDays == 400
\* "Only keep the 5 most recent" / LIMIT 5
UncompletedLimit == 5

\* completion_date::DATE as the database reads the text; a text it cannot read
\* compares as NULL and fails the WHERE clause.
DbDate(date_string) ==
    IF date_string.form \in {"iso", "us", "eu", "both", "slashiso", "dashus"}
    THEN Some(date_string.day) ELSE None

\* WHERE completion_date::DATE >= CURRENT_DATE - INTERVAL '<days> days'
InWindow(row, days) ==
    /\ DbDate(row.completion_date) # None
    /\ DbDate(row.completion_date)[1] >= 0 - days

\* ORDER BY completion_date DESC of a set of rows (ties in the database's order)
RECURSIVE OrderByDateDesc(_)
OrderByDateDesc(rows) ==
    IF rows = {} THEN <<>>
    ELSE LET first == CHOOSE r \in rows :
                        \A o \in rows : DbDate(o.completion_date)[1] <= DbDate(r.completion_date)[1]
         IN  <<first>> \o OrderByDateDesc(rows \ {first})

\* ORDER BY week_start_date DESC
RECURSIVE OrderByWeekDesc(_)
OrderByWeekDesc(rows) ==
    IF rows = {} THEN <<>>
    ELSE LET first == CHOOSE r \in rows : \A o \in rows : o.week_start_date <= r.week_start_date
         IN  <<first>> \o OrderByWeekDesc(rows \ {first})

\* cursor.fetchall() of a query with no ORDER BY: the rows in the database's order
RECURSIVE FetchAll(_)
FetchAll(rows) ==
    IF rows = {} THEN <<>>
    ELSE LET first == CHOOSE r \in rows : TRUE
         IN  <<first>> \o FetchAll(rows \ {first})

\* Map string to PMType enum: anything but "Weekly" and "Monthly" becomes ANNUAL
MapPMType(pm_type_str) ==
    IF pm_type_str = "Weekly" THEN WEEKLY
    ELSE IF pm_type_str = "Monthly" THEN MONTHLY
    ELSE ANNUAL

\* Mutant of ParseCompletionRows: the first row that raises ends the loop.
RECURSIVE ParseCompletionRows_StopAtError(_)
ParseCompletionRows_StopAtError(rows) ==
    IF rows = <<>> THEN <<>>
    ELSE LET row == Head(rows)
             completion_date == strptime(row.completion_date, "%Y-%m-%d")
         IN  IF completion_date = None THEN <<>>
             ELSE <<CompletionRecord(row.bfm_equipment_no, MapPMType(row.pm_type),
                                     completion_date[1], row.technician_name)>>
                  \o ParseCompletionRows_StopAtError(Tail(rows))

\* The loop over fetchall(): a row whose completion_date is not '%Y-%m-%d'
\* raises inside the try and is skipped.
RECURSIVE ParseCompletionRows(_)
ParseCompletionRows(rows) ==
    IF rows = <<>> THEN <<>>
    ELSE LET row == Head(rows)
             completion_date == strptime(row.completion_date, "%Y-%m-%d")
         IN  (IF completion_date = None THEN <<>>
              ELSE <<CompletionRecord(row.bfm_equipment_no, MapPMType(row.pm_type),
                                      completion_date[1], row.technician_name)>>)
             \o ParseCompletionRows(Tail(rows))

\* dict.get(key, [])
GetOrEmpty(cache, key) == IF key \in DOMAIN cache THEN cache[key] ELSE <<>>

\* s[:n] for n >= 0
Take(s, n) == IF n >= Len(s) THEN s ELSE SubSeq(s, 1, n)

\* Mutant of LoadedCompletions: the cache is not emptied before it is filled.
LoadedCompletions_NoReset(days) ==
    LET rows == {r \in pm_completions : InWindow(r, days)}
        keys == {r.bfm_equipment_no : r \in rows}
        parsed(b) == ParseCompletionRows(
                        OrderByDateDesc({r \in rows : r.bfm_equipment_no = b}))
        old == IF completion_cache = None THEN <<>> ELSE completion_cache[1]
    IN  [b \in (DOMAIN old) \cup {k \in keys : parsed(k) # <<>>} |->
            GetOrEmpty(old, b) \o parsed(b)]

\* bulk_load_completions: the new _completion_cache
LoadedCompletions(days) ==
    LET rows == {r \in pm_completions : InWindow(r, days)}
        keys == {r.bfm_equipment_no : r \in rows}
        parsed(b) == ParseCompletionRows(
                        OrderByDateDesc({r \in rows : r.bfm_equipment_no = b}))
    IN  [b \in {k \in keys : parsed(k) # <<>>} |-> parsed(b)]

\* get_recent_completions(bfm_no, days)
get_recent_completions(self, bfm_no, days) ==
    IF self.completion_cache # None
    THEN GetOrEmpty(self.completion_cache[1], bfm_no)
    ELSE ParseCompletionRows(OrderByDateDesc(
            {r \in pm_completions : r.bfm_equipment_no = bfm_no /\ InWindow(r, days)}))

ScheduledDict(row) ==
    [bfm_no |-> row.bfm_equipment_no, pm_type |-> row.pm_type,
     technician |-> row.assigned_technician, status |-> row.status]

RECURSIVE MapScheduled(_)
MapScheduled(rows) ==
    IF rows = <<>> THEN <<>> ELSE <<ScheduledDict(Head(rows))>> \o MapScheduled(Tail(rows))

\* bulk_load_scheduled(week_start): the new _scheduled_cache
LoadedScheduled(week_start) ==
    LET rows == {r \in weekly_pm_schedules : r.week_start_date = week_start}
    IN  [b \in {r.bfm_equipment_no : r \in rows} |->
            MapScheduled(FetchAll({r \in rows : r.bfm_equipment_no = b}))]

\* The id that is the empty string: bfm_equipment_no is TEXT NOT NULL UNIQUE, and
\* '' is the one id Python takes as false.  It sorts before every other id.
EmptyId == 0

\* get_scheduled_pms(week_start, bfm_no): the cache entry when the cache is
\* loaded and bfm_no is true (not the empty id); else the query of the equipment's entries of
\* the week, or for a false bfm_no of every entry of the week
get_scheduled_pms(self, week_start, bfm_no) ==
    IF self.scheduled_cache # None /\ bfm_no # EmptyId
    THEN GetOrEmpty(self.scheduled_cache[1], bfm_no)
    ELSE IF bfm_no # EmptyId
    THEN MapScheduled(FetchAll({r \in weekly_pm_schedules :
            r.week_start_date = week_start /\ r.bfm_equipment_no = bfm_no}))
    ELSE MapScheduled(FetchAll({r \in weekly_pm_schedules :
            r.week_start_date = week_start}))

UncompletedDict(row) ==
    [week_start |-> row.week_start_date, technician |-> row.assigned_technician,
     status |-> row.status]

RECURSIVE MapUncompleted(_)
MapUncompleted(rows) ==
    IF rows = <<>> THEN <<>> ELSE <<UncompletedDict(Head(rows))>> \o MapUncompleted(Tail(rows))

\* Mutant of UncompletedRows: the status is not looked at.
UncompletedRows_AnyStatus(before_week) ==
    {r \in weekly_pm_schedules : r.week_start_date < before_week}

\* WHERE week_start_date < before_week AND status = 'Scheduled'
UncompletedRows(before_week) ==
    {r \in weekly_pm_schedules : r.week_start_date < before_week /\ r.status = "Scheduled"}

\* bulk_load_uncompleted_schedules(before_week): the new _uncompleted_cache,
\* keyed by f"{bfm_no}_{pm_type}" (here the pair)
LoadedUncompleted(before_week) ==
    LET rows == UncompletedRows(before_week)
    IN  [key \in {<<r.bfm_equipment_no, r.pm_type>> : r \in rows} |->
            Take(MapUncompleted(OrderByWeekDesc(
                    {r \in rows : r.bfm_equipment_no = key[1] /\ r.pm_type = key[2]})),
                 UncompletedLimit)]

\* Mutant of get_uncompleted_schedules: the cache is read under the Weekly key
\* whatever the PM type.
get_uncompleted_schedules_WeeklyKey(self, bfm_no, pm_type, before_week) ==
    IF self.uncompleted_cache # None
    THEN GetOrEmpty(self.uncompleted_cache[1], <<bfm_no, WEEKLY>>)
    ELSE Take(MapUncompleted(OrderByWeekDesc(
                {r \in UncompletedRows(before_week) :
                    r.bfm_equipment_no = bfm_no /\ r.pm_type = pm_type})),
              UncompletedLimit)

\* get_uncompleted_schedules(bfm_no, pm_type, before_week)
get_uncompleted_schedules(self, bfm_no, pm_type, before_week) ==
    IF self.uncompleted_cache # None
    THEN GetOrEmpty(self.uncompleted_cache[1], <<bfm_no, pm_type>>)
    ELSE Take(MapUncompleted(OrderByWeekDesc(
                {r \in UncompletedRows(before_week) :
                    r.bfm_equipment_no = bfm_no /\ r.pm_type = pm_type})),
              UncompletedLimit)


-----------------------------------------------------------------------------
(* PMEligibilityChecker                                                    *)

\* Mutant of RequiresPM: the flags of the equipment are not looked at.
RequiresPM_Always(eq, pm_type) == TRUE

\* "if pm_type == PMType.X and not equipment.has_x"
RequiresPM(eq, pm_type) ==
    CASE pm_type = WEEKLY    -> eq.has_weekly
      [] pm_type = MONTHLY   -> eq.has_monthly
      [] pm_type = SIX_MONTH -> eq.has_six_month
      [] pm_type = ANNUAL    -> eq.has_annual

\* _get_minimum_interval
get_minimum_interval(pm_type) ==
    IF pm_type = WEEKLY THEN 7
    ELSE IF pm_type = MONTHLY THEN 30
    ELSE IF pm_type = SIX_MONTH THEN 180
    ELSE 365

\* [c for c in recent_completions if c.pm_type == pm_type]
OfType(recent_completions, pm_type) ==
    SelectSeq(recent_completions, LAMBDA c : c.pm_type = pm_type)

\* max(completions, key=lambda x: x.completion_date).completion_date
LatestDate(completions) ==
    LET dates == {completions[i].completion_date : i \in 1..Len(completions)}
    IN  CHOOSE d \in dates : \A o \in dates : o <= d

\* Mutant of Blocks: every completion of the blocking type must be recent.
Blocks_OldestCompletion(recent_completions, blocking, days) ==
    /\ OfType(recent_completions, blocking) # <<>>
    /\ \A i \in 1..Len(OfType(recent_completions, blocking)) :
          DaysSince(OfType(recent_completions, blocking)[i].completion_date) < days

\* One "recent <blocking> PM" test of _check_cross_pm_conflicts
Blocks(recent_completions, blocking, days) ==
    /\ OfType(recent_completions, blocking) # <<>>
    /\ DaysSince(LatestDate(OfType(recent_completions, blocking))) < days

\* _check_cross_pm_conflicts
check_cross_pm_conflicts(recent_completions, pm_type) ==
    IF pm_type = ANNUAL /\ Blocks(recent_completions, WEEKLY, 7)
    THEN PMEligibilityResult(CONFLICTED, "Annual blocked - Weekly PM completed", 0, 0)
    ELSE IF pm_type = ANNUAL /\ Blocks(recent_completions, MONTHLY, 7)
    THEN PMEligibilityResult(CONFLICTED, "Annual blocked - Monthly PM completed", 0, 0)
    ELSE IF pm_type = MONTHLY /\ Blocks(recent_completions, WEEKLY, 7)
    THEN PMEligibilityResult(CONFLICTED, "Monthly blocked - Weekly PM completed", 0, 0)
    ELSE IF pm_type = MONTHLY /\ Blocks(recent_completions, ANNUAL, 30)
    THEN PMEligibilityResult(CONFLICTED, "Monthly blocked - Annual PM completed", 0, 0)
    ELSE IF pm_type = WEEKLY /\ Blocks(recent_completions, MONTHLY, 7)
    THEN PMEligibilityResult(CONFLICTED, "Weekly blocked - Monthly PM completed", 0, 0)
    ELSE IF pm_type = WEEKLY /\ Blocks(recent_completions, ANNUAL, 7)
    THEN PMEligibilityResult(CONFLICTED, "Weekly blocked - Annual PM completed", 0, 0)
    ELSE PMEligibilityResult(DUE, "No cross-PM conflicts", 0, 0)

\* The equipment-table last date of the cadence
LastDateStr(eq, pm_type) ==
    IF pm_type = WEEKLY THEN eq.last_weekly_date
    ELSE IF pm_type = MONTHLY THEN eq.last_monthly_date
    ELSE IF pm_type = SIX_MONTH THEN eq.last_six_month_date
    ELSE eq.last_annual_date

\* "Never completed = high priority"
NeverCompletedPriority(pm_type) ==
    IF pm_type = WEEKLY THEN 1100
    ELSE IF pm_type = MONTHLY THEN 1000
    ELSE IF pm_type = SIX_MONTH THEN 950
    ELSE 900

\* Mutant of min_days: a PM may be done again two days before its frequency.
min_days_TwoDaysEarly(pm_type) ==
    IF pm_type = WEEKLY THEN 5 ELSE IF pm_type = MONTHLY THEN 28
    ELSE IF pm_type = SIX_MONTH THEN 178 ELSE 363

min_days(pm_type) ==
    IF pm_type = WEEKLY THEN 7 ELSE IF pm_type = MONTHLY THEN 30
    ELSE IF pm_type = SIX_MONTH THEN 180 ELSE 365

max_days(pm_type) ==
    IF pm_type = WEEKLY THEN 10 ELSE IF pm_type = MONTHLY THEN 35
    ELSE IF pm_type = SIX_MONTH THEN 190 ELSE 370

\* Mutant of ideal_frequency: lateness is counted from the end of the on-time window.
ideal_frequency_MaxDays(pm_type) == max_days(pm_type)

ideal_frequency(pm_type) ==
    IF pm_type = WEEKLY THEN 7 ELSE IF pm_type = MONTHLY THEN 30
    ELSE IF pm_type = SIX_MONTH THEN 180 ELSE 365

Min(a, b) == IF a <= b THEN a ELSE b
Abs(a) == IF a < 0 THEN 0 - a ELSE a

\* Mutant of OverduePriority: the score is not capped.
OverduePriority_NoCap(days_overdue) == 500 + (days_overdue * 10)

\* priority = min(500 + (days_overdue * 10), 999)
OverduePriority(days_overdue) == Min(500 + (days_overdue * 10), 999)

\* _check_due_date
check_due_date(eq, pm_type, recent_completions) ==
    LET same_type_completions == OfType(recent_completions, pm_type)
        last_completion_date ==
            IF same_type_completions # <<>>
            THEN Some(LatestDate(same_type_completions))
            ELSE parse_flexible(LastDateStr(eq, pm_type))
    IN  IF last_completion_date = None
        THEN PMEligibilityResult(DUE, "PM never completed - HIGH PRIORITY",
                                 NeverCompletedPriority(pm_type), 0)
        ELSE
        LET days_since_completion == DaysSince(last_completion_date[1])
            days_overdue == days_since_completion - ideal_frequency(pm_type)
        IN  IF days_since_completion >= min_days(pm_type)
            THEN IF days_overdue > 0
                 THEN PMEligibilityResult(DUE, "PM OVERDUE",
                                          OverduePriority(days_overdue), days_overdue)
                 ELSE IF days_since_completion <= max_days(pm_type)
                 THEN PMEligibilityResult(DUE, "PM due now",
                        300 - Abs(days_since_completion - ideal_frequency(pm_type)), 0)
                 ELSE PMEligibilityResult(DUE, "PM due", 200, 0)
            ELSE PMEligibilityResult(NOT_DUE, "PM not due", 0, 0)

\* SELECT bfm_equipment_no, next_annual_pm FROM equipment
\* WHERE next_annual_pm IS NOT NULL AND next_annual_pm != ''
LoadedNextAnnual ==
    LET rows == {r \in equipment : r.next_annual_pm.form \notin {"null", "empty"}}
    IN  [b \in {r.bfm_equipment_no : r \in rows} |->
            (CHOOSE r \in rows : r.bfm_equipment_no = b).next_annual_pm]

\* next_annual_str of check_eligibility: the cache entry, or the single-row query
NextAnnualStr(self, bfm_no) ==
    IF self.next_annual_cache # None
    THEN IF bfm_no \in DOMAIN self.next_annual_cache[1]
         THEN self.next_annual_cache[1][bfm_no] ELSE NullDate
    ELSE IF \E r \in equipment : r.bfm_equipment_no = bfm_no
         THEN (CHOOSE r \in equipment : r.bfm_equipment_no = bfm_no).next_annual_pm
         ELSE NullDate

\* The Next Annual PM Date step: Some(result) when it returns, None when it
\* falls through to the later checks.
AnnualOverride(self, eq) ==
    LET next_annual_str == NextAnnualStr(self, eq.bfm_no)
        next_annual_date == IF next_annual_str.form \in {"null", "empty"} THEN None
                            ELSE parse_flexible(next_annual_str)
    IN  IF next_annual_date = None THEN None
        ELSE LET days_until_next_annual == DaysUntil(next_annual_date[1])
             IN  IF days_until_next_annual > 7
                 THEN Some(PMEligibilityResult(NOT_DUE, "Annual PM scheduled for", 0, 0))
                 ELSE IF days_until_next_annual >= -30
                 THEN Some(PMEligibilityResult(DUE, "Annual PM due by Next Annual PM Date",
                            500 + Abs(Min(days_until_next_annual, 0)) * 10,
                            Abs(Min(days_until_next_annual, 0))))
                 ELSE None

\* check_eligibility from "Get recent completions" on
CheckFromRecentCompletions(self, eq, pm_type, week_start) ==
    LET recent_completions == get_recent_completions(self, eq.bfm_no, CompletionWindowDays)
        same_type_completions == OfType(recent_completions, pm_type)
        conflict_result == check_cross_pm_conflicts(recent_completions, pm_type)
        scheduled_pms == get_scheduled_pms(self, week_start, eq.bfm_no)
    IN  IF /\ same_type_completions # <<>>
           /\ DaysSince(LatestDate(same_type_completions)) < get_minimum_interval(pm_type)
        THEN PMEligibilityResult(RECENTLY_COMPLETED, "PM completed days ago", 0, 0)
        ELSE IF conflict_result.status = CONFLICTED
        THEN conflict_result
        ELSE IF \E i \in 1..Len(scheduled_pms) : scheduled_pms[i].pm_type = pm_type
        THEN PMEligibilityResult(CONFLICTED, "Already scheduled for this week", 0, 0)
        ELSE check_due_date(eq, pm_type, recent_completions)

\* check_eligibility(self, equipment, pm_type, week_start)
check_eligibility(self, eq, pm_type, week_start) ==
    IF ~RequiresPM(eq, pm_type)
    THEN PMEligibilityResult(NOT_DUE, "Equipment doesn't require PM", 0, 0)
    ELSE IF get_uncompleted_schedules(self, eq.bfm_no, pm_type, week_start) # <<>>
    THEN PMEligibilityResult(CONFLICTED, "Already scheduled for week (uncompleted)", 0, 0)
    ELSE IF pm_type = ANNUAL /\ AnnualOverride(self, eq) # None
    THEN AnnualOverride(self, eq)[1]
    ELSE CheckFromRecentCompletions(self, eq, pm_type, week_start)


-----------------------------------------------------------------------------
(* PMAssignmentGenerator                                                   *)

\* _has_custom_template, after _load_custom_templates filled the cache
has_custom_template(self, bfm_no, pm_type) ==
    <<bfm_no, pm_type>> \in self.custom_template_cache[1]

\* any(a.bfm_no == equipment.bfm_no and a.pm_type == pm_type for a in potential)
HasAssignment(potential, bfm_no, pm_type) ==
    \E i \in 1..Len(potential) :
        potential[i].bfm_no = bfm_no /\ potential[i].pm_type = pm_type

\* Mutant of ConsiderPM: the "already assigned" test is dropped.
ConsiderPM_NoSkip(self, potential, eq, pm_type, higher, week_start) ==
    IF RequiresPM(eq, pm_type) /\ check_eligibility(self, eq, pm_type, week_start).status = DUE
    THEN Append(potential, PMAssignment(eq.bfm_no, pm_type,
                    check_eligibility(self, eq, pm_type, week_start).priority_score,
                    check_eligibility(self, eq, pm_type, week_start).reason,
                    <<eq.bfm_no, pm_type>> \in self.custom_template_cache[1]))
    ELSE potential

\* One "Check <cadence> PM eligibility" block: skipped when the equipment does not
\* have the cadence or a cadence in higher is already a candidate for its bfm_no.
ConsiderPM(self, potential, eq, pm_type, higher, week_start) ==
    IF RequiresPM(eq, pm_type) /\ \A h \in higher : ~HasAssignment(potential, eq.bfm_no, h)
    THEN LET r == check_eligibility(self, eq, pm_type, week_start)
         IN  IF r.status = DUE
             THEN Append(potential, PMAssignment(eq.bfm_no, pm_type, r.priority_score,
                            r.reason, has_custom_template(self, eq.bfm_no, pm_type)))
             ELSE potential
    ELSE potential

\* Mutant of ProcessEquipment: the cadences are tried from Annual down.
ProcessEquipment_AnnualFirst(self, potential, eq, week_start) ==
    IF eq.status # "Active" THEN potential
    ELSE LET p1 == ConsiderPM(self, potential, eq, ANNUAL, {}, week_start)
             p2 == ConsiderPM(self, p1, eq, SIX_MONTH, {ANNUAL}, week_start)
             p3 == ConsiderPM(self, p2, eq, MONTHLY, {ANNUAL, SIX_MONTH}, week_start)
         IN  ConsiderPM(self, p3, eq, WEEKLY, {ANNUAL, SIX_MONTH, MONTHLY}, week_start)

\* Mutant of ProcessEquipment: the status of the record is not looked at.
ProcessEquipment_AnyStatus(self, potential, eq, week_start) ==
    LET p1 == ConsiderPM(self, potential, eq, WEEKLY, {}, week_start)
        p2 == ConsiderPM(self, p1, eq, MONTHLY, {WEEKLY}, week_start)
        p3 == ConsiderPM(self, p2, eq, SIX_MONTH, {WEEKLY, MONTHLY}, week_start)
    IN  ConsiderPM(self, p3, eq, ANNUAL, {WEEKLY, MONTHLY, SIX_MONTH}, week_start)

\* The body of the loop over equipment_list
ProcessEquipment(self, potential, eq, week_start) ==
    IF eq.status # "Active" THEN potential
    ELSE LET p1 == ConsiderPM(self, potential, eq, WEEKLY, {}, week_start)
             p2 == ConsiderPM(self, p1, eq, MONTHLY, {WEEKLY}, week_start)
             p3 == ConsiderPM(self, p2, eq, SIX_MONTH, {WEEKLY, MONTHLY}, week_start)
         IN  ConsiderPM(self, p3, eq, ANNUAL, {WEEKLY, MONTHLY, SIX_MONTH}, week_start)

\* potential_assignments when the loop ends
RECURSIVE CollectCandidates(_, _, _, _)
CollectCandidates(self, potential, equipment_list, week_start) ==
    IF equipment_list = <<>> THEN potential
    ELSE CollectCandidates(self,
            ProcessEquipment(self, potential, Head(equipment_list), week_start),
            Tail(equipment_list), week_start)

\* equipment_priority_map when the loop ends: the last Active record of a bfm_no wins
RECURSIVE EquipmentPriorityMap(_)
EquipmentPriorityMap(equipment_list) ==
    IF equipment_list = <<>> THEN <<>>
    ELSE LET eq == equipment_list[Len(equipment_list)]
             before == EquipmentPriorityMap(SubSeq(equipment_list, 1, Len(equipment_list) - 1))
         IN  IF eq.status # "Active" THEN before
             ELSE [b \in (DOMAIN before) \cup {eq.bfm_no} |->
                      IF b = eq.bfm_no THEN eq.priority ELSE before[b]]

\* The sort key (not x.has_custom_template, equipment priority, -x.priority_score)
SortKey(x, equipment_priority_map) ==
    <<IF x.has_custom_template THEN 0 ELSE 1,
      IF x.bfm_no \in DOMAIN equipment_priority_map
      THEN equipment_priority_map[x.bfm_no] ELSE 99,
      0 - x.priority_score>>

\* Mutant of KeyLess: the priority score is compared the wrong way round.
KeyLess_ScoreAscending(k1, k2) ==
    \/ k1[1] < k2[1]
    \/ k1[1] = k2[1] /\ k1[2] < k2[2]
    \/ k1[1] = k2[1] /\ k1[2] = k2[2] /\ k1[3] > k2[3]

\* Tuple comparison k1 < k2
KeyLess(k1, k2) ==
    \/ k1[1] < k2[1]
    \/ k1[1] = k2[1] /\ k1[2] < k2[2]
    \/ k1[1] = k2[1] /\ k1[2] = k2[2] /\ k1[3] < k2[3]

\* Mutant of InsertByKey: x goes in front of the elements of equal key.
RECURSIVE InsertByKey_BeforeEqual(_, _, _)
InsertByKey_BeforeEqual(sorted, x, equipment_priority_map) ==
    IF sorted = <<>> THEN <<x>>
    ELSE IF ~KeyLess(SortKey(Head(sorted), equipment_priority_map),
                     SortKey(x, equipment_priority_map))
         THEN <<x>> \o sorted
         ELSE <<Head(sorted)>> \o
              InsertByKey_BeforeEqual(Tail(sorted), x, equipment_priority_map)

\* list.sort is stable: x goes behind every element whose key is not greater
RECURSIVE InsertByKey(_, _, _)
InsertByKey(sorted, x, equipment_priority_map) ==
    IF sorted = <<>> THEN <<x>>
    ELSE IF KeyLess(SortKey(x, equipment_priority_map),
                    SortKey(Head(sorted), equipment_priority_map))
         THEN <<x>> \o sorted
         ELSE <<Head(sorted)>> \o InsertByKey(Tail(sorted), x, equipment_priority_map)

RECURSIVE SortAssignments(_, _)
SortAssignments(potential, equipment_priority_map) ==
    IF potential = <<>> THEN <<>>
    ELSE InsertByKey(SortAssignments(SubSeq(potential, 1, Len(potential) - 1),
                                     equipment_priority_map),
                     potential[Len(potential)], equipment_priority_map)

\* Mutant of Slice: one element too many is kept.
Slice_OneMore(s, n) == IF n + 1 >= Len(s) THEN s ELSE SubSeq(s, 1, n + 1)

\* potential_assignments[:max_assignments]
Slice(s, n) ==
    IF n >= 0 THEN Take(s, n)
    ELSE IF Len(s) + n > 0 THEN SubSeq(s, 1, Len(s) + n) ELSE <<>>

\* potential_assignments of generate_assignments after the sort
SortedCandidates(self, equipment_list, week_start) ==
    SortAssignments(CollectCandidates(self, <<>>, equipment_list, week_start),
                    EquipmentPriorityMap(equipment_list))

-----------------------------------------------------------------------------
(* PMSchedulingService                                                     *)

\* SQL NULL of the status column
NULL == "NULL"

\* WHERE clause of _load_equipment_with_priority; a NULL status makes
\* "status NOT IN (...)" unknown, so the row is not selected.  The ids in the
\* three override tables are taken to be non-null.
InRoster(row) ==
    /\ row.status = "Active" \/ row.status = NULL
    /\ row.status # NULL /\ row.status \notin {"Run to Failure", "Missing"}
    /\ row.bfm_equipment_no \notin
          {c.bfm_equipment_no : c \in {x \in cannot_find_assets : x.status = "Missing"}}
    /\ row.bfm_equipment_no \notin run_to_failure_assets
    /\ row.bfm_equipment_no \notin deactivated_assets
    /\ row.weekly_pm \/ row.monthly_pm \/ row.six_month_pm \/ row.annual_pm

\* ORDER BY bfm_equipment_no
RECURSIVE OrderByBfm(_)
OrderByBfm(rows) ==
    IF rows = {} THEN <<>>
    ELSE LET first == CHOOSE r \in rows :
                        \A o \in rows : r.bfm_equipment_no <= o.bfm_equipment_no
         IN  <<first>> \o OrderByBfm(rows \ {first})

\* The text of the id b followed by whitespace is the id b + 10; bfm.strip()
\* gives b back.  The ids without whitespace are below 10.
Padded(b) == b + 10
Strip(b) == IF b >= 10 THEN b - 10 ELSE b

\* A cell of the BFM column as pandas hands it over: a text, or a number
TextCell(b) == [type |-> "str", bfm |-> b]
NumberCell(n) == [type |-> "num", bfm |-> n]

\* bfm_str of a cell: the stripped text, or str(int(float(bfm))) of a number
BfmStr(cell) == IF cell.type = "str" THEN Strip(cell.bfm) ELSE cell.bfm

\* A priority file: not there, without a BFM column, or with its BFM cells
\* (NaN dropped, each value once)
SkippedFile(kind) == [kind |-> kind, BFM |-> {}]
ListFile(cells) == [kind |-> "list", BFM |-> cells]

\* One round of the loop over priority_files: a file that is missing or has no
\* BFM column is skipped, else priority_map[bfm_str] = priority for each
\* non-empty bfm_str
LoadPriorityFile(map, file, priority) ==
    IF file.kind # "list" THEN map
    ELSE LET keys == {BfmStr(c) : c \in file.BFM} \ {EmptyId}
         IN  [k \in (DOMAIN map) \cup keys |->
                 IF k \in keys THEN priority ELSE map[k]]

\* _load_priority_assets: the files of priority 1, 2, 3 in this order
load_priority_assets(files) ==
    LoadPriorityFile(LoadPriorityFile(LoadPriorityFile(<<>>, files[1], 1), files[2], 2),
                     files[3], 3)

\* A service constructed where none of the three files exists
NoPriorityFiles ==
    /\ priority_files = [t \in 1..3 |-> SkippedFile("missing")]
    /\ priority_map = load_priority_assets(priority_files)

\* Equipment(...) built from one row, priority = priority_map.get(str(bfm_no), 99)
EquipmentOfRow(row) ==
    Equipment(row.bfm_equipment_no, row.weekly_pm, row.monthly_pm, row.six_month_pm,
              row.annual_pm, row.last_weekly_pm, row.last_monthly_pm,
              row.last_six_month_pm, row.last_annual_pm, row.status,
              IF row.bfm_equipment_no \in DOMAIN priority_map
              THEN priority_map[row.bfm_equipment_no] ELSE 99)

RECURSIVE MapEquipment(_)
MapEquipment(rows) ==
    IF rows = <<>> THEN <<>> ELSE <<EquipmentOfRow(Head(rows))>> \o MapEquipment(Tail(rows))

\* _load_equipment_with_priority
load_equipment_with_priority == MapEquipment(OrderByBfm({r \in equipment : InRoster(r)}))

\* An entry of the log of a run: a cursor.execute on a table, or a call of
\* check_eligibility for a cadence
Execute(table) == <<"execute", table>>
CheckCall(pm_type) == <<"check_eligibility", pm_type>>

\* The cursor.execute calls of one check_eligibility call, in order: each
\* accessor queries when it does not take its cache branch, and each step that
\* returns ends the list
CheckReads(self, eq, pm_type, week_start) ==
    LET uncompleted_read == IF self.uncompleted_cache # None THEN <<>>
                            ELSE <<Execute("weekly_pm_schedules")>>
        next_annual_read == IF pm_type # ANNUAL \/ self.next_annual_cache # None THEN <<>>
                            ELSE <<Execute("equipment")>>
        completions_read == IF self.completion_cache # None THEN <<>>
                            ELSE <<Execute("pm_completions")>>
        scheduled_read == IF self.scheduled_cache # None /\ eq.bfm_no # EmptyId THEN <<>>
                          ELSE <<Execute("weekly_pm_schedules")>>
        recent_completions == get_recent_completions(self, eq.bfm_no, CompletionWindowDays)
        same_type_completions == OfType(recent_completions, pm_type)
    IN  IF ~RequiresPM(eq, pm_type) THEN <<>>
        ELSE IF get_uncompleted_schedules(self, eq.bfm_no, pm_type, week_start) # <<>>
        THEN uncompleted_read
        ELSE IF pm_type = ANNUAL /\ AnnualOverride(self, eq) # None
        THEN uncompleted_read \o next_annual_read
        ELSE IF \/ /\ same_type_completions # <<>>
                   /\ DaysSince(LatestDate(same_type_completions))
                         < get_minimum_interval(pm_type)
                \/ check_cross_pm_conflicts(recent_completions, pm_type).status = CONFLICTED
        THEN uncompleted_read \o next_annual_read \o completions_read
        ELSE uncompleted_read \o next_annual_read \o completions_read \o scheduled_read

\* The log of one "Check <cadence> PM eligibility" block: the call, its
\* queries, and the template query of _has_custom_template when the cache is None
ConsiderPMLog(self, potential, eq, pm_type, higher, week_start) ==
    IF RequiresPM(eq, pm_type) /\ \A h \in higher : ~HasAssignment(potential, eq.bfm_no, h)
    THEN <<CheckCall(pm_type)>> \o CheckReads(self, eq, pm_type, week_start) \o
         (IF /\ check_eligibility(self, eq, pm_type, week_start).status = DUE
             /\ self.custom_template_cache = None
          THEN <<Execute("pm_templates")>> ELSE <<>>)
    ELSE <<>>

\* The log of the body of the loop over equipment_list
ProcessEquipmentLog(self, potential, eq, week_start) ==
    IF eq.status # "Active" THEN <<>>
    ELSE LET p1 == ConsiderPM(self, potential, eq, WEEKLY, {}, week_start)
             p2 == ConsiderPM(self, p1, eq, MONTHLY, {WEEKLY}, week_start)
             p3 == ConsiderPM(self, p2, eq, SIX_MONTH, {WEEKLY, MONTHLY}, week_start)
         IN  ConsiderPMLog(self, potential, eq, WEEKLY, {}, week_start) \o
             ConsiderPMLog(self, p1, eq, MONTHLY, {WEEKLY}, week_start) \o
             ConsiderPMLog(self, p2, eq, SIX_MONTH, {WEEKLY, MONTHLY}, week_start) \o
             ConsiderPMLog(self, p3, eq, ANNUAL, {WEEKLY, MONTHLY, SIX_MONTH}, week_start)

\* The log of the loop
RECURSIVE LoopLog(_, _, _, _)
LoopLog(self, potential, equipment_list, week_start) ==
    IF equipment_list = <<>> THEN <<>>
    ELSE ProcessEquipmentLog(self, potential, Head(equipment_list), week_start) \o
         LoopLog(self, ProcessEquipment(self, potential, Head(equipment_list), week_start),
                 Tail(equipment_list), week_start)

\* The log of generate_weekly_schedule: the four bulk loads, the roster query,
\* _load_custom_templates, then the loop of generate_assignments.  self is the
\* scheduler objects after the loads.
RunLog(self, equipment_list, week_start) ==
    <<Execute("pm_completions"), Execute("weekly_pm_schedules"),
      Execute("weekly_pm_schedules"), Execute("equipment"), Execute("equipment"),
      Execute("pm_templates")>> \o
    LoopLog(self, <<>>, equipment_list, week_start)


-----------------------------------------------------------------------------
(* Operations                                                              *)

\* The scheduler objects as they are: self of the methods
Self ==
    [completion_cache |-> completion_cache, scheduled_cache |-> scheduled_cache,
     uncompleted_cache |-> uncompleted_cache, next_annual_cache |-> next_annual_cache,
     custom_template_cache |-> custom_template_cache]

NoResult == PMEligibilityResult("none", "", 0, 0)
NoEligCall == [equipment |-> <<>>, pm_type |-> "none", week_start |-> 0]
NoGenCall == [equipment_list |-> <<>>, week_start |-> 0, max_assignments |-> 0]

\* A newly constructed PMSchedulingService: every cache is None
FreshCaches ==
    /\ completion_cache = None
    /\ scheduled_cache = None
    /\ uncompleted_cache = None
    /\ next_annual_cache = None
    /\ custom_template_cache = None

NoRepoCall == [op |-> "none", args |-> <<>>, value |-> <<>>, repeat |-> FALSE]

NoCalls ==
    /\ repo_call = NoRepoCall
    /\ elig_call = NoEligCall
    /\ result = NoResult
    /\ gen_call = NoGenCall
    /\ potential_assignments = <<>>
    /\ assignments = <<>>
    /\ run_log = <<>>

\* The scheduler objects of a newly constructed service: nothing is loaded
NewService ==
    [completion_cache |-> None, scheduled_cache |-> None, uncompleted_cache |-> None,
     next_annual_cache |-> None, custom_template_cache |-> None]

\* Mutant of BulkLoaded: a cache that is already loaded is kept as it is.
BulkLoaded_KeepLoaded(self, week_start, loads) ==
    [self EXCEPT
        !.completion_cache = IF loads >= 1 /\ @ = None
                             THEN Some(LoadedCompletions(CompletionWindowDays)) ELSE @,
        !.scheduled_cache = IF loads >= 2 /\ @ = None
                            THEN Some(LoadedScheduled(week_start)) ELSE @,
        !.uncompleted_cache = IF loads >= 3 /\ @ = None
                              THEN Some(LoadedUncompleted(week_start)) ELSE @,
        !.next_annual_cache = IF loads >= 4 /\ @ = None
                              THEN Some(LoadedNextAnnual) ELSE @]

\* The scheduler objects after the first `loads` of the four bulk loads of
\* generate_weekly_schedule; each load replaces its cache
BulkLoaded(self, week_start, loads) ==
    [self EXCEPT
        !.completion_cache = IF loads >= 1
                             THEN Some(LoadedCompletions(CompletionWindowDays)) ELSE @,
        !.scheduled_cache = IF loads >= 2 THEN Some(LoadedScheduled(week_start)) ELSE @,
        !.uncompleted_cache = IF loads >= 3 THEN Some(LoadedUncompleted(week_start)) ELSE @,
        !.next_annual_cache = IF loads >= 4 THEN Some(LoadedNextAnnual) ELSE @]

\* "Bulk load all data upfront" of generate_weekly_schedule
BulkLoadAll(week_start) ==
    LET loaded == BulkLoaded(Self, week_start, 4)
    IN  /\ completion_cache' = loaded.completion_cache
        /\ scheduled_cache' = loaded.scheduled_cache
        /\ uncompleted_cache' = loaded.uncompleted_cache
        /\ next_annual_cache' = loaded.next_annual_cache

\* The bulk loads of a scheduling run, before any eligibility check
BulkLoad(week_start) ==
    /\ pc = "idle"
    /\ BulkLoadAll(week_start)
    /\ pc' = "loaded"
    /\ UNCHANGED <<storeVars, time_of_day, custom_template_cache, priority_map,
                   callVars, clockVars>>

\* A call check_eligibility(equipment, pm_type, week_start) on a roster item
CheckEligibility(row, pm_type, week_start) ==
    /\ pc \in {"idle", "loaded"}
    /\ elig_call' = [equipment |-> EquipmentOfRow(row), pm_type |-> pm_type,
                     week_start |-> week_start]
    /\ result' = check_eligibility(Self, EquipmentOfRow(row), pm_type, week_start)
    /\ pc' = "checked"
    /\ UNCHANGED <<storeVars, time_of_day, cacheVars, priority_map,
                   gen_call, potential_assignments, assignments, repo_call, run_log,
                   clockVars>>

\* _load_custom_templates: the new _custom_template_cache
LoadedCustomTemplates == pm_templates

\* A call generate_assignments(equipment_list, week_start, max_assignments).
\* The templates are loaded first; the checks read the caches as they are.
GenerateAssignments(equipment_list, week_start, max_assignments) ==
    /\ pc \in {"idle", "loaded"}
    /\ UNCHANGED <<storeVars, time_of_day, completion_cache, scheduled_cache,
                   uncompleted_cache, next_annual_cache, priority_map>>
    /\ custom_template_cache' = Some(LoadedCustomTemplates)
    /\ gen_call' = [equipment_list |-> equipment_list, week_start |-> week_start,
                    max_assignments |-> max_assignments]
    /\ LET self == [Self EXCEPT !.custom_template_cache = Some(LoadedCustomTemplates)]
           sorted == SortedCandidates(self, equipment_list, week_start)
       IN  /\ potential_assignments' = sorted
           /\ assignments' = Slice(sorted, max_assignments)
    /\ pc' = "generated"
    /\ UNCHANGED <<elig_call, result, repo_call, run_log, clockVars>>

-----------------------------------------------------------------------------
(* EligSpec: check_eligibility on one equipment item over a family of      *)
(* stores.  A store is the default store (two Active items with every      *)
(* cadence, no dates, no records) changed by at most MaxFeatures features. *)

MaxFeatures == 2

Feature(kind, bfm, pm_type, date, week, status) ==
    [kind |-> kind, bfm |-> bfm, pm_type |-> pm_type, date |-> date,
     week |-> week, status |-> status]

\* Days before today of sample completion records
CompletionDays == {-3, -7, -30, -40, -380}
\* This week's start and the week before it
ThisWeek == {0}
PriorWeek == {-7}
NextAnnualDays == {-40, -30, -10, 3, 8, 20}

\* Sample last dates of a cadence: not yet due, due exactly, in the window, overdue
LastDays(pm_type) ==
    {0 - (min_days(pm_type) - 2), 0 - min_days(pm_type),
     0 - (min_days(pm_type) + 3), 0 - (min_days(pm_type) + 60)}

FeaturePool ==
    {Feature("completion", 1, t, Iso(d), 0, "") : t \in PMType, d \in CompletionDays}
    \cup {Feature("completion", 1, WEEKLY, DateStr("us", -3), 0, ""),
          Feature("completion", 2, WEEKLY, Iso(-3), 0, "")}
    \cup {Feature("schedule", 1, t, NullDate, w, st) :
            t \in PMType, w \in ThisWeek \cup PriorWeek, st \in {"Scheduled", "Completed"}}
    \cup {Feature("schedule", 2, WEEKLY, NullDate, w, "Scheduled") : w \in PriorWeek}
    \cup {Feature("schedule", 2, ANNUAL, NullDate, w, "Scheduled") : w \in ThisWeek}
    \cup {Feature("next_annual", 1, ANNUAL, Iso(d), 0, "") : d \in NextAnnualDays}
    \cup {Feature("next_annual", 1, ANNUAL, DateStr("garbage", 0), 0, "")}
    \cup UNION {{Feature("last_date", 1, t, Iso(d), 0, "") : d \in LastDays(t)} :
                    t \in PMType}
    \cup {Feature("last_date", 1, WEEKLY, DateStr("garbage", 0), 0, ""),
          Feature("last_date", 1, WEEKLY, DateStr("dashus", -8), 0, ""),
          Feature("last_date", 1, ANNUAL, DateStr("empty", 0), 0, "")}
    \cup {Feature("no_flag", 1, t, NullDate, 0, "") : t \in PMType}
    \cup {Feature("midnight", 1, WEEKLY, NullDate, 0, "")}

\* A column of one row holds one value
OneValuePerColumn(features) ==
    \A f, g \in features :
        (f.kind = g.kind /\ f.kind \in {"next_annual", "last_date"}
            /\ f.bfm = g.bfm /\ f.pm_type = g.pm_type) => f = g

RECURSIVE FeatureSets(_)
FeatureSets(n) ==
    IF n = 0 THEN {{}}
    ELSE LET smaller == FeatureSets(n - 1)
         IN  smaller \cup {fs \cup {f} : fs \in smaller, f \in FeaturePool}

ColumnDate(features, kind, bfm, pm_type) ==
    IF \E f \in features : f.kind = kind /\ f.bfm = bfm /\ f.pm_type = pm_type
    THEN (CHOOSE f \in features : f.kind = kind /\ f.bfm = bfm /\ f.pm_type = pm_type).date
    ELSE NullDate

HasFlag(features, bfm, pm_type) ==
    ~\E f \in features : f.kind = "no_flag" /\ f.bfm = bfm /\ f.pm_type = pm_type

EquipmentRow(features, bfm) ==
    [bfm_equipment_no |-> bfm,
     weekly_pm |-> HasFlag(features, bfm, WEEKLY),
     monthly_pm |-> HasFlag(features, bfm, MONTHLY),
     six_month_pm |-> HasFlag(features, bfm, SIX_MONTH),
     annual_pm |-> HasFlag(features, bfm, ANNUAL),
     last_weekly_pm |-> ColumnDate(features, "last_date", bfm, WEEKLY),
     last_monthly_pm |-> ColumnDate(features, "last_date", bfm, MONTHLY),
     last_six_month_pm |-> ColumnDate(features, "last_date", bfm, SIX_MONTH),
     last_annual_pm |-> ColumnDate(features, "last_date", bfm, ANNUAL),
     next_annual_pm |-> ColumnDate(features, "next_annual", bfm, ANNUAL),
     status |-> "Active"]

CompletionRow(bfm, pm_type, date, technician) ==
    [bfm_equipment_no |-> bfm, pm_type |-> pm_type, completion_date |-> date,
     technician_name |-> technician]

ScheduleRow(bfm, pm_type, week, status, technician) ==
    [bfm_equipment_no |-> bfm, pm_type |-> pm_type, week_start_date |-> week,
     status |-> status, assigned_technician |-> technician]

StoreOf(features) ==
    /\ equipment = {EquipmentRow(features, 1), EquipmentRow(features, 2)}
    /\ pm_completions = {CompletionRow(f.bfm, f.pm_type, f.date, "T1") :
                            f \in {g \in features : g.kind = "completion"}}
    /\ weekly_pm_schedules = {ScheduleRow(f.bfm, f.pm_type, f.week, f.status, "T1") :
                                f \in {g \in features : g.kind = "schedule"}}
    /\ pm_templates = {}
    /\ cannot_find_assets = {}
    /\ run_to_failure_assets = {}
    /\ deactivated_assets = {}
    /\ time_of_day = IF \E f \in features : f.kind = "midnight" THEN 0 ELSE 1

EligInit ==
    /\ \E features \in FeatureSets(MaxFeatures) :
          OneValuePerColumn(features) /\ StoreOf(features)
    /\ FreshCaches
    /\ NoPriorityFiles
    /\ pc = "idle"
    /\ NoCalls
    /\ day_of_week = 0 /\ work_day = 0 /\ weeks_elapsed = 0

\* The item the checks are about
Subject == CHOOSE r \in equipment : r.bfm_equipment_no = 1

EligNext ==
    \/ \E w \in ThisWeek : BulkLoad(w)
    \/ \E t \in PMType, w \in ThisWeek : CheckEligibility(Subject, t, w)

EligSpec == EligInit /\ [][EligNext]_vars


-----------------------------------------------------------------------------
(* AssignSpec: generate_assignments on caller-built equipment lists, which *)
(* may name one bfm_no more than once, over a few stores.                  *)

MaxEquipment == 2
MaxAssignments == 3

\* Priority of the sample items: the records of one bfm_no carry one priority,
\* as the roster load merges it from the priority map.
SamplePriority(bfm) == IF bfm = 2 THEN 1 ELSE 99

\* Last dates of the sample items: none, or some time ago
SampleDates(aged, pm_type) ==
    IF ~aged THEN NullDate
    ELSE IF pm_type = WEEKLY THEN Iso(-8)
    ELSE IF pm_type = MONTHLY THEN Iso(-20)
    ELSE IF pm_type = SIX_MONTH THEN Iso(-185)
    ELSE Iso(-365)

SampleEquipment(bfm, flags, aged, status) ==
    Equipment(bfm, WEEKLY \in flags, MONTHLY \in flags, SIX_MONTH \in flags,
              ANNUAL \in flags, SampleDates(aged, WEEKLY), SampleDates(aged, MONTHLY),
              SampleDates(aged, SIX_MONTH), SampleDates(aged, ANNUAL), status,
              SamplePriority(bfm))

EquipmentPool ==
    {SampleEquipment(1, {WEEKLY, ANNUAL}, TRUE, "Active"),
     SampleEquipment(1, {WEEKLY, ANNUAL}, FALSE, "Active"),
     SampleEquipment(1, PMType, FALSE, "Active"),
     SampleEquipment(1, {WEEKLY}, FALSE, "Missing"),
     SampleEquipment(1, {WEEKLY}, FALSE, NULL),
     SampleEquipment(2, {WEEKLY}, FALSE, "Run to Failure"),
     SampleEquipment(2, PMType, TRUE, "Active"),
     SampleEquipment(2, {WEEKLY, ANNUAL}, FALSE, "Active"),
     SampleEquipment(2, {}, FALSE, "Active"),
     SampleEquipment(3, {WEEKLY}, FALSE, "Active")}

RECURSIVE EquipmentLists(_)
EquipmentLists(n) ==
    IF n = 0 THEN {<<>>}
    ELSE LET shorter == EquipmentLists(n - 1)
         IN  shorter \cup {Append(l, e) : l \in shorter, e \in EquipmentPool}

AssignInit ==
    /\ equipment = {EquipmentRow({}, 1), EquipmentRow({}, 2)}
    /\ \/ pm_completions = {} /\ weekly_pm_schedules = {}
       \/ /\ pm_completions = {CompletionRow(1, "Weekly", Iso(-3), "T1")}
          /\ weekly_pm_schedules = {}
       \/ /\ pm_completions = {}
          /\ weekly_pm_schedules = {ScheduleRow(2, "Weekly", 0, "Scheduled", "T1")}
    /\ pm_templates \in {{}, {<<1, "Weekly">>, <<2, "Six Month">>}}
    /\ cannot_find_assets = {}
    /\ run_to_failure_assets = {}
    /\ deactivated_assets = {}
    /\ time_of_day = 1
    /\ FreshCaches
    /\ NoPriorityFiles
    /\ pc = "idle"
    /\ NoCalls
    /\ day_of_week = 0 /\ work_day = 0 /\ weeks_elapsed = 0

AssignNext ==
    \/ \E w \in ThisWeek : BulkLoad(w)
    \/ \E l \in EquipmentLists(MaxEquipment), w \in ThisWeek, n \in 0..MaxAssignments :
          GenerateAssignments(l, w, n)

AssignSpec == AssignInit /\ [][AssignNext]_vars


-----------------------------------------------------------------------------
(* Weekly operation: runs of generate_weekly_schedule, the caller that     *)
(* stores the output, technicians completing PMs, and the calendar.        *)
(* Dates are day numbers relative to today, so a day that passes moves     *)
(* every stored date one day back; dates older than MaxAge days are kept   *)
(* as MaxAge days old, which is beyond every window the scheduler reads.   *)

MaxAge == 405
MaxWeeks == 1
MaxPMs == 1

ShiftDay(day, n) == IF day - n < 0 - MaxAge THEN 0 - MaxAge ELSE day - n

ShiftDate(date_string, n) ==
    IF date_string.form \in {"null", "empty", "garbage"} THEN date_string
    ELSE [date_string EXCEPT !.day = ShiftDay(@, n), !.alt = ShiftDay(@, n)]

RECURSIVE ShiftCompletions(_, _)
ShiftCompletions(records, n) ==
    IF records = <<>> THEN <<>>
    ELSE <<[Head(records) EXCEPT !.completion_date = ShiftDay(@, n)]>>
         \o ShiftCompletions(Tail(records), n)

RECURSIVE ShiftUncompleted(_, _)
ShiftUncompleted(dicts, n) ==
    IF dicts = <<>> THEN <<>>
    ELSE <<[Head(dicts) EXCEPT !.week_start = ShiftDay(@, n)]>>
         \o ShiftUncompleted(Tail(dicts), n)

\* n days pass: the same stores and caches, seen from the new today
DaysPass(n) ==
    /\ equipment' = {[r EXCEPT !.last_weekly_pm = ShiftDate(@, n),
                               !.last_monthly_pm = ShiftDate(@, n),
                               !.last_six_month_pm = ShiftDate(@, n),
                               !.last_annual_pm = ShiftDate(@, n),
                               !.next_annual_pm = ShiftDate(@, n)] : r \in equipment}
    /\ pm_completions' = {[r EXCEPT !.completion_date = ShiftDate(@, n)] : r \in pm_completions}
    /\ weekly_pm_schedules' =
          {[r EXCEPT !.week_start_date = ShiftDay(@, n)] : r \in weekly_pm_schedules}
    /\ completion_cache' =
          IF completion_cache = None THEN None
          ELSE Some([b \in DOMAIN completion_cache[1] |->
                        ShiftCompletions(completion_cache[1][b], n)])
    /\ uncompleted_cache' =
          IF uncompleted_cache = None THEN None
          ELSE Some([k \in DOMAIN uncompleted_cache[1] |->
                        ShiftUncompleted(uncompleted_cache[1][k], n)])
    /\ next_annual_cache' =
          IF next_annual_cache = None THEN None
          ELSE Some([b \in DOMAIN next_annual_cache[1] |->
                        ShiftDate(next_annual_cache[1][b], n)])
    /\ UNCHANGED <<pm_templates, cannot_find_assets, run_to_failure_assets,
                   deactivated_assets, priority_files, time_of_day, scheduled_cache,
                   custom_template_cache, priority_map>>

\* The calendar moves on by n days, at most to the next Monday. The values of
\* the last call are gone by then.
AdvanceDays(n) ==
    /\ pc \in {"idle", "persisted"}
    /\ n > 0 /\ day_of_week + n <= 7
    /\ DaysPass(n)
    /\ day_of_week' = (day_of_week + n) % 7
    /\ weeks_elapsed' = IF day_of_week + n = 7 /\ weeks_elapsed < MaxWeeks
                        THEN weeks_elapsed + 1 ELSE weeks_elapsed
    /\ pc' = IF day_of_week + n = 7 THEN "idle" ELSE pc
    /\ elig_call' = NoEligCall /\ result' = NoResult /\ gen_call' = NoGenCall
    /\ potential_assignments' = <<>> /\ assignments' = <<>>
    /\ repo_call' = NoRepoCall /\ run_log' = <<>>
    /\ UNCHANGED work_day

\* The Monday of the current week
CurrentWeek == 0 - day_of_week

\* Mutant of GenerateWeeklySchedule: the run stores its assignments itself.
GenerateWeeklySchedule_Persisting(week_start, max_pms) ==
    /\ pc \in {"idle", "persisted", "raised"}
    /\ BulkLoadAll(week_start)
    /\ custom_template_cache' = Some(LoadedCustomTemplates)
    /\ LET self == [BulkLoaded(Self, week_start, 4) EXCEPT
                        !.custom_template_cache = Some(LoadedCustomTemplates)]
           equipment_list == load_equipment_with_priority
           sorted == SortedCandidates(self, equipment_list, week_start)
           kept == Slice(sorted, max_pms)
       IN  /\ gen_call' = [equipment_list |-> equipment_list, week_start |-> week_start,
                           max_assignments |-> max_pms]
           /\ potential_assignments' = sorted
           /\ assignments' = kept
           /\ weekly_pm_schedules' = weekly_pm_schedules \cup
                 {ScheduleRow(kept[i].bfm_no, kept[i].pm_type, week_start,
                              "Scheduled", "T1") : i \in 1..Len(kept)}
    /\ pc' = "generated"
    /\ UNCHANGED <<equipment, pm_completions, pm_templates, cannot_find_assets,
                   run_to_failure_assets, deactivated_assets, priority_files, time_of_day, priority_map,
                   elig_call, result, repo_call, run_log, clockVars>>

\* generate_weekly_schedule(week_start, max_pms): the bulk loads, the roster
\* load and generate_assignments, as one call
GenerateWeeklySchedule(week_start, max_pms) ==
    /\ pc \in {"idle", "persisted", "raised"}
    /\ BulkLoadAll(week_start)
    /\ custom_template_cache' = Some(LoadedCustomTemplates)
    /\ LET self == [BulkLoaded(Self, week_start, 4) EXCEPT
                        !.custom_template_cache = Some(LoadedCustomTemplates)]
           equipment_list == load_equipment_with_priority
           sorted == SortedCandidates(self, equipment_list, week_start)
       IN  /\ gen_call' = [equipment_list |-> equipment_list, week_start |-> week_start,
                           max_assignments |-> max_pms]
           /\ potential_assignments' = sorted
           /\ assignments' = Slice(sorted, max_pms)
           /\ run_log' = RunLog(self, equipment_list, week_start)
    /\ pc' = "generated"
    /\ UNCHANGED <<storeVars, time_of_day, priority_map, elig_call, result, repo_call,
                   clockVars>>

\* generate_weekly_schedule(week_start, max_pms) raising after `loads` of its
\* bulk loads (a failing query of the next load, or of the roster load): the
\* caches loaded so far stay, nothing is returned.  The caller runs it again
\* before anything else happens.
GenerateWeeklyScheduleRaises(week_start, loads) ==
    /\ pc \in {"idle", "persisted", "raised"}
    /\ LET loaded == BulkLoaded(Self, week_start, loads)
       IN  /\ completion_cache' = loaded.completion_cache
           /\ scheduled_cache' = loaded.scheduled_cache
           /\ uncompleted_cache' = loaded.uncompleted_cache
           /\ next_annual_cache' = loaded.next_annual_cache
    /\ pc' = "raised"
    /\ UNCHANGED <<storeVars, time_of_day, custom_template_cache, priority_map,
                   callVars, clockVars>>

\* The caller stores the returned assignments as 'Scheduled' entries of the week
PersistSchedule ==
    /\ pc = "generated"
    /\ weekly_pm_schedules' = weekly_pm_schedules \cup
          {ScheduleRow(assignments[i].bfm_no, assignments[i].pm_type,
                       gen_call.week_start, "Scheduled", "T1") : i \in 1..Len(assignments)}
    /\ pc' = "persisted"
    /\ UNCHANGED <<equipment, pm_completions, pm_templates, cannot_find_assets,
                   run_to_failure_assets, deactivated_assets, priority_files, time_of_day, cacheVars,
                   priority_map, callVars, clockVars>>

\* The 'Scheduled' entries of the schedule store
OpenEntries == {r \in weekly_pm_schedules : r.status = "Scheduled"}

\* Technicians complete the PMs of the entries today: a completion record each,
\* and the entries are no longer 'Scheduled'
CompletePMs(entries) ==
    /\ pc \in {"idle", "persisted"}
    /\ entries # {} /\ entries \subseteq OpenEntries
    /\ pm_completions' = pm_completions \cup
          {CompletionRow(r.bfm_equipment_no, r.pm_type, Iso(0), r.assigned_technician) :
              r \in entries}
    /\ weekly_pm_schedules' = (weekly_pm_schedules \ entries) \cup
          {[r EXCEPT !.status = "Completed"] : r \in entries}
    /\ UNCHANGED <<equipment, pm_templates, cannot_find_assets, run_to_failure_assets,
                   deactivated_assets, priority_files, time_of_day, cacheVars, priority_map, callVars,
                   pc, clockVars>>

\* A row of the sample roster; no PM was ever completed.
RosterRow(bfm, flags, next_annual, status) ==
    [bfm_equipment_no |-> bfm, weekly_pm |-> WEEKLY \in flags,
     monthly_pm |-> MONTHLY \in flags, six_month_pm |-> SIX_MONTH \in flags,
     annual_pm |-> ANNUAL \in flags, last_weekly_pm |-> NullDate,
     last_monthly_pm |-> NullDate, last_six_month_pm |-> NullDate,
     last_annual_pm |-> NullDate, next_annual_pm |-> next_annual, status |-> status]

Init ==
    /\ equipment = {RosterRow(1, {WEEKLY, MONTHLY, ANNUAL}, NullDate, "Active"),
                    RosterRow(2, {WEEKLY}, NullDate, "Missing")}
    /\ pm_completions = {}
    /\ weekly_pm_schedules = {}
    /\ pm_templates = {}
    /\ cannot_find_assets = {}
    /\ run_to_failure_assets = {}
    /\ deactivated_assets = {}
    /\ time_of_day = 1
    /\ FreshCaches
    /\ NoPriorityFiles
    /\ pc = "idle"
    /\ NoCalls
    /\ day_of_week = 0 /\ work_day = 0 /\ weeks_elapsed = 0

Next ==
    \/ \E n \in 0..MaxPMs : GenerateWeeklySchedule(CurrentWeek, n)
    \/ \E loads \in 0..4 : GenerateWeeklyScheduleRaises(CurrentWeek, loads)
    \/ PersistSchedule
    \/ \E r \in OpenEntries : CompletePMs({r})
    \/ weeks_elapsed < MaxWeeks /\ AdvanceDays(7)

Spec == Init /\ [][Next]_vars

\* The weekly cycle: generate_weekly_schedule runs once on Monday, the caller
\* stores its output, every scheduled PM is completed on the week's work day, and
\* the next week begins.
LiveInit ==
    /\ equipment = {RosterRow(1, {WEEKLY, ANNUAL}, NullDate, "Active")}
    /\ pm_completions = {}
    /\ weekly_pm_schedules = {}
    /\ pm_templates = {}
    /\ cannot_find_assets = {}
    /\ run_to_failure_assets = {}
    /\ deactivated_assets = {}
    /\ time_of_day = 1
    /\ FreshCaches
    /\ NoPriorityFiles
    /\ pc = "idle"
    /\ NoCalls
    /\ day_of_week = 0 /\ work_day \in 0..6 /\ weeks_elapsed = 0

\* Monday's run of generate_weekly_schedule for the week that begins
WeeklyRun == pc = "idle" /\ day_of_week = 0 /\ GenerateWeeklySchedule(CurrentWeek, MaxPMs)

\* The calendar reaches the work day of the week
WorkDayComes == pc = "persisted" /\ day_of_week = 0 /\ work_day > 0 /\ AdvanceDays(work_day)

\* Every scheduled PM is completed on the work day
WorkDone == pc = "persisted" /\ day_of_week = work_day /\ CompletePMs(OpenEntries)

\* The week ends with nothing left scheduled
WeekEnds ==
    /\ pc = "persisted" /\ day_of_week = work_day /\ OpenEntries = {}
    /\ AdvanceDays(7 - work_day)

LiveNext == WeeklyRun \/ PersistSchedule \/ WorkDayComes \/ WorkDone \/ WeekEnds

\* A run that was started returns: the step from "idle" to "generated", which
\* under LiveNext is WeeklyRun
RunReturns == pc = "idle" /\ day_of_week = 0 /\ pc' = "generated"

\* The cycle keeps going: the run is made every Monday, its output is stored, the
\* PMs are done and the days pass.
LiveFairness ==
    /\ WF_pc(RunReturns)
    /\ WF_vars(PersistSchedule)
    /\ WF_vars(WorkDayComes)
    /\ WF_vars(WorkDone)
    /\ WF_vars(WeekEnds)

LiveSpec == LiveInit /\ [][LiveNext]_vars /\ LiveFairness

\* One generate_weekly_schedule call over every sample roster: two equipment
\* rows of any status and flags, and any content of the three override tables.
RosterStatus == {"Active", "Missing", "Run to Failure", NULL}
RosterFlags == {{}, {WEEKLY}, {MONTHLY, ANNUAL}}

\* A row of cannot_find_assets: the id and the status column (DEFAULT 'Missing')
CannotFindRow(bfm, status) == [bfm_equipment_no |-> bfm, status |-> status]

CannotFindPool ==
    {CannotFindRow(1, "Missing"), CannotFindRow(1, "Found"), CannotFindRow(2, "Missing")}

RosterInit ==
    /\ \E f1, f2 \in RosterFlags, s1, s2 \in RosterStatus :
          equipment = {RosterRow(1, f1, NullDate, s1), RosterRow(2, f2, NullDate, s2)}
    /\ pm_completions = {}
    /\ weekly_pm_schedules = {}
    /\ pm_templates = {}
    /\ cannot_find_assets \in SUBSET CannotFindPool
    /\ run_to_failure_assets \in SUBSET {2}
    /\ deactivated_assets \in SUBSET {1}
    /\ time_of_day = 1
    /\ FreshCaches
    /\ NoPriorityFiles
    /\ pc = "idle"
    /\ NoCalls
    /\ day_of_week = 0 /\ work_day = 0 /\ weeks_elapsed = 0

RosterNext == \E n \in 0..MaxPMs : GenerateWeeklySchedule(CurrentWeek, n)

RosterSpec == RosterInit /\ [][RosterNext]_vars

-----------------------------------------------------------------------------
(* RepoSpec: the methods of CompletionRecordRepository called directly, in *)
(* any order and with any arguments, over a store that does not change.    *)

\* The values of the days argument: a short window and the default one
WindowDays == {30, CompletionWindowDays}
\* The values of the week arguments
RepoWeeks == ThisWeek \cup PriorWeek
RepoIds == {1, 2}

RepoCompletions ==
    {CompletionRow(1, "Weekly", Iso(-3), "T1"),
     CompletionRow(1, "Weekly", DateStr("us", -10), "T1"),
     CompletionRow(1, "Monthly", Iso(-40), "T1"),
     CompletionRow(2, "Annual", Iso(-200), "T2"),
     CompletionRow(2, "Monthly", DateStr("dashus", -20), "T2")}

RepoSchedules ==
    {ScheduleRow(1, "Weekly", 0, "Scheduled", "T1"),
     ScheduleRow(1, "Weekly", -7, "Scheduled", "T1"),
     ScheduleRow(2, "Monthly", -7, "Completed", "T2")}

\* The record of a repository call: what was called, with what, what it
\* returned, and whether the call before it was the same call
RepoCall(op, args, value) ==
    [op |-> op, args |-> args, value |-> value,
     repeat |-> repo_call.op = op /\ repo_call.args = args]

\* A call bulk_load_completions(days)
BulkLoadCompletions(days) ==
    /\ pc = "idle"
    /\ completion_cache' = Some(LoadedCompletions(days))
    /\ repo_call' = RepoCall("bulk_load_completions", <<days>>, None)
    /\ UNCHANGED <<storeVars, time_of_day, scheduled_cache, uncompleted_cache,
                   next_annual_cache, custom_template_cache, priority_map, pc,
                   elig_call, result, gen_call, potential_assignments, assignments,
                   run_log, clockVars>>

\* A call bulk_load_scheduled(week_start)
BulkLoadScheduled(week_start) ==
    /\ pc = "idle"
    /\ scheduled_cache' = Some(LoadedScheduled(week_start))
    /\ repo_call' = RepoCall("bulk_load_scheduled", <<week_start>>, None)
    /\ UNCHANGED <<storeVars, time_of_day, completion_cache, uncompleted_cache,
                   next_annual_cache, custom_template_cache, priority_map, pc,
                   elig_call, result, gen_call, potential_assignments, assignments,
                   run_log, clockVars>>

\* A call bulk_load_uncompleted_schedules(before_week)
BulkLoadUncompletedSchedules(before_week) ==
    /\ pc = "idle"
    /\ uncompleted_cache' = Some(LoadedUncompleted(before_week))
    /\ repo_call' = RepoCall("bulk_load_uncompleted_schedules", <<before_week>>, None)
    /\ UNCHANGED <<storeVars, time_of_day, completion_cache, scheduled_cache,
                   next_annual_cache, custom_template_cache, priority_map, pc,
                   elig_call, result, gen_call, potential_assignments, assignments,
                   run_log, clockVars>>

\* A call get_recent_completions(bfm_no, days)
GetRecentCompletions(bfm_no, days) ==
    /\ pc = "idle"
    /\ repo_call' = RepoCall("get_recent_completions", <<bfm_no, days>>,
                             get_recent_completions(Self, bfm_no, days))
    /\ UNCHANGED <<storeVars, time_of_day, cacheVars, priority_map, pc, elig_call,
                   result, gen_call, potential_assignments, assignments, run_log,
                   clockVars>>

\* A call get_scheduled_pms(week_start, bfm_no)
GetScheduledPMs(week_start, bfm_no) ==
    /\ pc = "idle"
    /\ repo_call' = RepoCall("get_scheduled_pms", <<week_start, bfm_no>>,
                             get_scheduled_pms(Self, week_start, bfm_no))
    /\ UNCHANGED <<storeVars, time_of_day, cacheVars, priority_map, pc, elig_call,
                   result, gen_call, potential_assignments, assignments, run_log,
                   clockVars>>

\* A call get_uncompleted_schedules(bfm_no, pm_type, before_week)
GetUncompletedSchedules(bfm_no, pm_type, before_week) ==
    /\ pc = "idle"
    /\ repo_call' = RepoCall("get_uncompleted_schedules", <<bfm_no, pm_type, before_week>>,
                             get_uncompleted_schedules(Self, bfm_no, pm_type, before_week))
    /\ UNCHANGED <<storeVars, time_of_day, cacheVars, priority_map, pc, elig_call,
                   result, gen_call, potential_assignments, assignments, run_log,
                   clockVars>>

RepoInit ==
    /\ equipment = {EquipmentRow({}, 1), EquipmentRow({}, 2)}
    /\ pm_completions \in SUBSET RepoCompletions
    /\ weekly_pm_schedules \in SUBSET RepoSchedules
    /\ pm_templates = {}
    /\ cannot_find_assets = {}
    /\ run_to_failure_assets = {}
    /\ deactivated_assets = {}
    /\ time_of_day = 1
    /\ FreshCaches
    /\ NoPriorityFiles
    /\ pc = "idle"
    /\ NoCalls
    /\ day_of_week = 0 /\ work_day = 0 /\ weeks_elapsed = 0

RepoNext ==
    \/ \E days \in WindowDays : BulkLoadCompletions(days)
    \/ \E w \in RepoWeeks : BulkLoadScheduled(w)
    \/ \E w \in RepoWeeks : BulkLoadUncompletedSchedules(w)
    \/ \E b \in RepoIds, days \in WindowDays : GetRecentCompletions(b, days)
    \/ \E b \in RepoIds, w \in RepoWeeks : GetScheduledPMs(w, b)
    \/ \E b \in RepoIds, w \in RepoWeeks : GetUncompletedSchedules(b, WEEKLY, w)

RepoSpec == RepoInit /\ [][RepoNext]_vars

-----------------------------------------------------------------------------
(* RunSpec: generate_weekly_schedule, and the caller storing its output,   *)
(* over rosters of two Active items of which the first may have the empty  *)
(* id, with entries of the current week and completions in the store.      *)

RunInit ==
    /\ \E b \in {EmptyId, 1}, f1, f2 \in {{WEEKLY}, {MONTHLY, ANNUAL}},
          na \in {NullDate, Iso(3), Iso(20)} :
          equipment = {RosterRow(b, f1, NullDate, "Active"), RosterRow(2, f2, na, "Active")}
    /\ pm_completions \in SUBSET {CompletionRow(1, WEEKLY, Iso(0 - 3), "T1"),
                                   CompletionRow(2, MONTHLY, Iso(0 - 3), "T1")}
    /\ weekly_pm_schedules \in SUBSET {ScheduleRow(2, WEEKLY, 0, "Scheduled", "T1"),
                                        ScheduleRow(2, ANNUAL, 0 - 7, "Scheduled", "T1")}
    /\ pm_templates = {}
    /\ cannot_find_assets = {}
    /\ run_to_failure_assets = {}
    /\ deactivated_assets = {}
    /\ time_of_day \in {0, 1}
    /\ FreshCaches
    /\ NoPriorityFiles
    /\ pc = "idle"
    /\ NoCalls
    /\ day_of_week = 0 /\ work_day = 0 /\ weeks_elapsed = 0

RunNext ==
    \/ \E n \in 0..MaxPMs : GenerateWeeklySchedule(CurrentWeek, n)
    \/ PersistSchedule

RunSpec == RunInit /\ [][RunNext]_vars

-----------------------------------------------------------------------------
(* PrioritySpec: a service constructed beside any three priority files of  *)
(* a sample pool, and its generate_weekly_schedule over a roster of two    *)
(* Active items; the id of the second may end in whitespace.               *)

PriorityInit ==
    /\ \E b \in {2, Padded(2)} :
          equipment = {RosterRow(1, {WEEKLY}, NullDate, "Active"),
                       RosterRow(b, {WEEKLY}, NullDate, "Active")}
    /\ pm_completions = {}
    /\ weekly_pm_schedules = {}
    /\ pm_templates = {}
    /\ cannot_find_assets = {}
    /\ run_to_failure_assets = {}
    /\ deactivated_assets = {}
    /\ time_of_day = 1
    /\ FreshCaches
    /\ priority_files \in
          [1..3 -> {SkippedFile("missing"), SkippedFile("no_column"),
                    ListFile({TextCell(1)}),
                    ListFile({NumberCell(1), TextCell(Padded(EmptyId))}),
                    ListFile({TextCell(2), TextCell(Padded(1))}),
                    ListFile({TextCell(Padded(2))})}]
    /\ priority_map = load_priority_assets(priority_files)
    /\ pc = "idle"
    /\ NoCalls
    /\ day_of_week = 0 /\ work_day = 0 /\ weeks_elapsed = 0

PriorityNext == \E n \in 0..MaxPMs : GenerateWeeklySchedule(CurrentWeek, n)

PrioritySpec == PriorityInit /\ [][PriorityNext]_vars

-----------------------------------------------------------------------------
(* Claims about generate_assignments (AssignSpec)                          *)

Generated == pc = "generated"

\* The positions of equipment_list holding an Active record
ActivePositions(equipment_list) ==
    {i \in 1..Len(equipment_list) : equipment_list[i].status = "Active"}

\* No two Active records of the list share a bfm_no
ActiveIdsDistinct(equipment_list) ==
    \A i, j \in ActivePositions(equipment_list) :
        equipment_list[i].bfm_no = equipment_list[j].bfm_no => i = j

\* The cadences of the record that check_eligibility finds DUE
DueTypes(eq, week_start) ==
    {t \in PMType : RequiresPM(eq, t) /\ check_eligibility(Self, eq, t, week_start).status = DUE}

\* C1 as stated: whatever the equipment_list (records may share a bfm_no), the
\* list generate_assignments returns holds at most one PMAssignment per bfm_no.
C1_OnePerEquipmentId ==
    Generated =>
        \A i, j \in 1..Len(assignments) :
            assignments[i].bfm_no = assignments[j].bfm_no => i = j

\* C1 amended: when no two Active records of equipment_list share a bfm_no, the
\* list generate_assignments returns holds at most one PMAssignment per bfm_no.
C1_OnePerDistinctEquipmentId ==
    (Generated /\ ActiveIdsDistinct(gen_call.equipment_list)) =>
        \A i, j \in 1..Len(assignments) :
            assignments[i].bfm_no = assignments[j].bfm_no => i = j

\* Two Active records of different bfm_no, one of them DUE for two cadences, and
\* each got its one assignment.
C1_Witness ==
    /\ Generated
    /\ ActiveIdsDistinct(gen_call.equipment_list)
    /\ Len(assignments) = 2
    /\ assignments[1].bfm_no # assignments[2].bfm_no
    /\ \E i \in ActivePositions(gen_call.equipment_list) :
          Cardinality(DueTypes(gen_call.equipment_list[i], gen_call.week_start)) >= 2

\* C2: for every N >= 0 the returned list has at most N elements.
C2_AtMostMaxAssignments ==
    (Generated /\ gen_call.max_assignments >= 0) =>
        Len(assignments) <= gen_call.max_assignments

\* More candidates than the capacity N > 0: the list is cut to N.
C2_Witness ==
    /\ Generated
    /\ gen_call.max_assignments > 0
    /\ Len(potential_assignments) > gen_call.max_assignments
    /\ Len(assignments) = gen_call.max_assignments

\* The priority of the equipment an assignment is for: the priority the records
\* of its bfm_no carry in equipment_list.
EquipmentPriorityOf(equipment_list, bfm_no) ==
    (CHOOSE e \in {equipment_list[i] : i \in ActivePositions(equipment_list)} :
        e.bfm_no = bfm_no).priority

\* C3: in the returned list, for positions i < j: i has a custom template or j
\* has none; with equal custom-template status the equipment priority at i is
\* <= that at j; with both equal the priority_score at i is >= that at j.
C3_SortedByTemplatePriorityScore ==
    Generated =>
        \A i, j \in 1..Len(assignments) :
            i < j =>
              LET a == assignments[i]
                  b == assignments[j]
                  pa == EquipmentPriorityOf(gen_call.equipment_list, a.bfm_no)
                  pb == EquipmentPriorityOf(gen_call.equipment_list, b.bfm_no)
              IN  /\ a.has_custom_template \/ ~b.has_custom_template
                  /\ a.has_custom_template = b.has_custom_template => pa <= pb
                  /\ (a.has_custom_template = b.has_custom_template /\ pa = pb)
                        => a.priority_score >= b.priority_score

\* The candidates in the order the loop found them
FoundOrder ==
    CollectCandidates(Self, <<>>, gen_call.equipment_list, gen_call.week_start)

\* The sort moved a candidate: the loop found the candidate without a custom
\* template first, for the equipment of better priority, and the returned list
\* has the custom-template candidate of the worse-priority equipment before it.
C3_Witness ==
    /\ Generated
    /\ Len(assignments) = 2
    /\ FoundOrder = <<assignments[2], assignments[1]>>
    /\ assignments[1].has_custom_template /\ ~assignments[2].has_custom_template
    /\ EquipmentPriorityOf(gen_call.equipment_list, assignments[1].bfm_no)
         > EquipmentPriorityOf(gen_call.equipment_list, assignments[2].bfm_no)

\* The first cadence, in the order Weekly, Monthly, Six Month, Annual, of a set
FirstCadence(types) ==
    IF WEEKLY \in types THEN WEEKLY
    ELSE IF MONTHLY \in types THEN MONTHLY
    ELSE IF SIX_MONTH \in types THEN SIX_MONTH
    ELSE ANNUAL

\* The positions of the untruncated candidate list that are for bfm_no
CandidatesFor(bfm_no) ==
    {k \in 1..Len(potential_assignments) : potential_assignments[k].bfm_no = bfm_no}

\* C8: an Active record whose bfm_no occurs once in equipment_list has a candidate
\* exactly when check_eligibility is DUE for one of its cadences, and then it has
\* one candidate, of the first cadence (Weekly, Monthly, Six Month, Annual) found DUE.
C8_FirstDueCadence ==
    Generated =>
        \A i \in ActivePositions(gen_call.equipment_list) :
            LET eq == gen_call.equipment_list[i]
                due == DueTypes(eq, gen_call.week_start)
                cands == CandidatesFor(eq.bfm_no)
            IN  (\A j \in 1..Len(gen_call.equipment_list) :
                    gen_call.equipment_list[j].bfm_no = eq.bfm_no => j = i)
                => /\ (cands # {}) <=> (due # {})
                   /\ due # {} =>
                        /\ Cardinality(cands) = 1
                        /\ \A k \in cands :
                              potential_assignments[k].pm_type = FirstCadence(due)

\* An item whose Weekly and Annual are both DUE got one candidate, WEEKLY; and an
\* item whose first flagged cadence is not DUE got a later one.
C8_Witness ==
    /\ Generated
    /\ \E i \in ActivePositions(gen_call.equipment_list) :
          LET eq == gen_call.equipment_list[i]
          IN  /\ {WEEKLY, ANNUAL} \subseteq DueTypes(eq, gen_call.week_start)
              /\ \E k \in CandidatesFor(eq.bfm_no) :
                    potential_assignments[k].pm_type = WEEKLY
    /\ \E i \in ActivePositions(gen_call.equipment_list) :
          LET eq == gen_call.equipment_list[i]
          IN  /\ eq.has_weekly
              /\ WEEKLY \notin DueTypes(eq, gen_call.week_start)
              /\ DueTypes(eq, gen_call.week_start) # {}
              /\ CandidatesFor(eq.bfm_no) # {}


-----------------------------------------------------------------------------
(* Claims about check_eligibility (EligSpec)                               *)

Checked == pc = "checked"

\* The schedule store holds a 'Scheduled' entry for the checked (equipment, PM
\* type) of a week before week_start
HasStaleSchedule ==
    \E r \in weekly_pm_schedules :
        /\ r.bfm_equipment_no = elig_call.equipment.bfm_no
        /\ r.pm_type = elig_call.pm_type
        /\ r.status = "Scheduled"
        /\ r.week_start_date < elig_call.week_start

\* The schedule store holds an entry for the checked (equipment, PM type) of
\* the week week_start
HasScheduleThisWeek ==
    \E r \in weekly_pm_schedules :
        /\ r.bfm_equipment_no = elig_call.equipment.bfm_no
        /\ r.pm_type = elig_call.pm_type
        /\ r.week_start_date = elig_call.week_start

\* The completion store holds a completion of the checked (equipment, PM type)
\* made fewer than the minimum interval ago
HasRecentCompletion ==
    \E r \in pm_completions :
        /\ r.bfm_equipment_no = elig_call.equipment.bfm_no
        /\ r.pm_type = elig_call.pm_type
        /\ r.completion_date.form = "iso"
        /\ DaysSince(r.completion_date.day) >= 0
        /\ DaysSince(r.completion_date.day) < get_minimum_interval(elig_call.pm_type)

\* C4 as stated: the score of a DUE never-completed PM of every type (900, 950,
\* 1000, 1100) is strictly higher than the score check_eligibility gives a DUE
\* PM that is overdue and was completed before.
C4_NeverCompletedAboveOverdue ==
    (Checked /\ result.status = DUE /\ result.reason = "PM OVERDUE") =>
        \A t \in PMType : NeverCompletedPriority(t) > result.priority_score

\* C5: a 'Scheduled' entry for (E, T) of a week before week_start, E requiring T,
\* makes check_eligibility(E, T, week_start) return CONFLICTED whatever else the
\* stores hold.
C5_StaleScheduleConflicts ==
    (Checked /\ RequiresPM(elig_call.equipment, elig_call.pm_type) /\ HasStaleSchedule)
        => result.status = CONFLICTED

\* A stale Annual entry, read through the bulk-loaded cache, wins over a
\* next-annual date that the annual override would have answered DUE for.
C5_Witness ==
    /\ Checked
    /\ HasStaleSchedule
    /\ elig_call.pm_type = ANNUAL
    /\ uncompleted_cache # None
    /\ AnnualOverride(Self, elig_call.equipment) # None
    /\ AnnualOverride(Self, elig_call.equipment)[1].status = DUE
    /\ result.status = CONFLICTED
    /\ result.reason = "Already scheduled for week (uncompleted)"

\* C6 as stated (check_eligibility part): an entry for (E, T) of the week
\* week_start in the schedule store means check_eligibility(E, T, week_start)
\* does not return DUE, for all four cadences.
C6_ScheduledThisWeekNotDue ==
    (Checked /\ HasScheduleThisWeek) => result.status # DUE

\* C7 as stated: a completion of type T (Weekly, Monthly, Annual) for E made
\* fewer than T's minimum interval ago means check_eligibility(E, T, week_start)
\* does not return DUE, and returns RECENTLY_COMPLETED when no stale schedule
\* exists for (E, T).
C7_RecentCompletionNotDue ==
    (/\ Checked
     /\ elig_call.pm_type \in {WEEKLY, MONTHLY, ANNUAL}
     /\ RequiresPM(elig_call.equipment, elig_call.pm_type)
     /\ HasRecentCompletion)
        => /\ result.status # DUE
           /\ ~HasStaleSchedule => result.status = RECENTLY_COMPLETED


-----------------------------------------------------------------------------
(* Claims about runs of generate_weekly_schedule (Spec, LiveSpec)          *)

RosterIds == {1, 2}

\* The run that just returned found the Weekly and the Annual PM of the Active
\* item bfm_no, which has both cadences, DUE
BothDue(bfm_no) ==
    /\ Generated
    /\ \E i \in ActivePositions(gen_call.equipment_list) :
          LET eq == gen_call.equipment_list[i]
          IN  /\ eq.bfm_no = bfm_no
              /\ {WEEKLY, ANNUAL} \subseteq DueTypes(eq, gen_call.week_start)

\* The run that just returned assigned the Annual PM of bfm_no
AnnualAssigned(bfm_no) ==
    /\ Generated
    /\ \E i \in 1..Len(assignments) :
          assignments[i].bfm_no = bfm_no /\ assignments[i].pm_type = ANNUAL

\* C9 as stated: under the weekly cycle, an Active item whose Weekly and Annual
\* PMs are both DUE in some run has its Annual PM assigned by some later run.
C9_AnnualEventuallyAssigned ==
    \A b \in RosterIds : BothDue(b) ~> AnnualAssigned(b)

\* No equipment has entries of two different PM types for the week
OneTypeInWeek(schedules, week) ==
    \A r1, r2 \in schedules :
        (/\ r1.week_start_date = week /\ r2.week_start_date = week
         /\ r1.bfm_equipment_no = r2.bfm_equipment_no) => r1.pm_type = r2.pm_type

\* C10 as stated: when no equipment has entries of two PM types for week W,
\* storing the output of a run generate_weekly_schedule(W) leaves no equipment
\* with entries of two PM types for week W (so any number of stored runs does).
C10_OneTypePerWeekKept ==
    [][(/\ pc = "generated" /\ pc' = "persisted"
        /\ OneTypeInWeek(weekly_pm_schedules, gen_call.week_start))
          => OneTypeInWeek(weekly_pm_schedules', gen_call.week_start)]_vars


\* The entries of (bfm_no, pm_type) from a week before the week of the last run
EarlierEntries(bfm_no, pm_type) ==
    {r \in weekly_pm_schedules :
        /\ r.bfm_equipment_no = bfm_no /\ r.pm_type = pm_type
        /\ r.week_start_date < gen_call.week_start}

StaleGateReason == "Already scheduled for week (uncompleted)"

\* C11: in every run, (a) an (E, T) that has a 'Scheduled' entry from an earlier
\* week is not in the output, and (b) an (E, T) none of whose earlier entries is
\* 'Scheduled' any more is not CONFLICTED by the stale-schedule gate.
C11_StaleEntryBlocksUntilResolved ==
    Generated =>
        \A i \in 1..Len(gen_call.equipment_list), t \in PMType :
            LET eq == gen_call.equipment_list[i]
                open == {r \in EarlierEntries(eq.bfm_no, t) : r.status = "Scheduled"}
            IN  /\ open # {} =>
                      ~\E k \in 1..Len(assignments) :
                          assignments[k].bfm_no = eq.bfm_no /\ assignments[k].pm_type = t
                /\ open = {} =>
                      check_eligibility(Self, eq, t, gen_call.week_start).reason
                          # StaleGateReason

\* A run of a later week: the Monthly entry of the week before is still
\* 'Scheduled' and Monthly is held back, the Weekly entry of the week before was
\* completed and Weekly is assigned again.
C11_Witness ==
    /\ Generated
    /\ \E r \in EarlierEntries(1, MONTHLY) : r.status = "Scheduled"
    /\ check_eligibility(Self, gen_call.equipment_list[1], MONTHLY, gen_call.week_start).reason
          = StaleGateReason
    /\ EarlierEntries(1, WEEKLY) # {}
    /\ \A r \in EarlierEntries(1, WEEKLY) : r.status = "Completed"
    /\ \E k \in 1..Len(assignments) :
          assignments[k].bfm_no = 1 /\ assignments[k].pm_type = WEEKLY


\* The completions of the checked equipment that the repository can read
SubjectCompletions ==
    {r \in pm_completions :
        /\ r.bfm_equipment_no = elig_call.equipment.bfm_no
        /\ r.completion_date.form = "iso"}

\* The case of C12: a Monthly check of an equipment that requires it, whose
\* latest Monthly completion is 40 days old, with no stale or current-week
\* entry and no completion of another PM type in the last 30 days
MonthlyFortyDaysAgo ==
    /\ Checked
    /\ elig_call.pm_type = MONTHLY
    /\ elig_call.equipment.has_monthly
    /\ \E r \in SubjectCompletions :
          r.pm_type = MONTHLY /\ DaysSince(r.completion_date.day) = 40
    /\ \A r \in SubjectCompletions :
          /\ r.pm_type = MONTHLY => DaysSince(r.completion_date.day) >= 40
          /\ r.pm_type # MONTHLY => DaysSince(r.completion_date.day) >= 30
    /\ ~HasStaleSchedule
    /\ ~HasScheduleThisWeek

\* C12 (amended): in that case check_eligibility(E, MONTHLY, week_start) is DUE,
\* overdue by 40 - ideal_frequency = 10 days, with priority_score
\* min(500 + 10*10, 999) = 600.
C12_MonthlyFortyDaysScore600 ==
    MonthlyFortyDaysAgo
        => /\ result.status = DUE
           /\ result.days_overdue = 10
           /\ result.priority_score = 600

C12_Witness ==
    /\ MonthlyFortyDaysAgo
    /\ result.status = DUE
    /\ result.priority_score = OverduePriority(40 - ideal_frequency(MONTHLY))

\* C12 as stated: has_monthly, the latest Monthly completion 40 days ago, no
\* stale or current-week entry for Monthly and no completion of another PM type
\* in the last 30 days: check_eligibility(E, MONTHLY, week_start) is DUE with
\* priority_score 550 (overdue by 5 days).
C12_MonthlyFortyDaysScore550 ==
    MonthlyFortyDaysAgo
        => /\ result.status = DUE
           /\ result.priority_score = 550
           /\ result.days_overdue = 5

\* C13 as stated: has_six_month, no stale schedule, and a 'Six Month' completion
\* made fewer than 180 days ago: check_eligibility(E, SIX_MONTH, week_start)
\* returns RECENTLY_COMPLETED.
C13_SixMonthRecentlyCompleted ==
    (/\ Checked
     /\ elig_call.pm_type = SIX_MONTH
     /\ elig_call.equipment.has_six_month
     /\ ~HasStaleSchedule
     /\ \E r \in SubjectCompletions :
           /\ r.pm_type = SIX_MONTH
           /\ DaysSince(r.completion_date.day) >= 0
           /\ DaysSince(r.completion_date.day) < get_minimum_interval(SIX_MONTH))
        => result.status = RECENTLY_COMPLETED


\* The records of equipment_list that carry the id of an assignment
RecordsOf(bfm_no) ==
    {i \in 1..Len(gen_call.equipment_list) : gen_call.equipment_list[i].bfm_no = bfm_no}

NotRequiredReason == "Equipment doesn't require PM"

\* The cadence flag of an equipment record, read from its fields
CadenceFlag(eq, pm_type) ==
    \/ pm_type = WEEKLY /\ eq.has_weekly
    \/ pm_type = MONTHLY /\ eq.has_monthly
    \/ pm_type = SIX_MONTH /\ eq.has_six_month
    \/ pm_type = ANNUAL /\ eq.has_annual

Unflagged(eq) ==
    ~eq.has_weekly /\ ~eq.has_monthly /\ ~eq.has_six_month /\ ~eq.has_annual

\* C14: an equipment whose four cadence flags are all false is never in the
\* output of generate_assignments (every assignment is for a cadence that a
\* record of its equipment requires), and check_eligibility answers NOT_DUE
\* for a cadence the equipment does not require, whatever the store holds for
\* the other gates.
C14_UnflaggedNeverAssigned ==
    Generated =>
        /\ \A k \in 1..Len(assignments) :
              \E i \in RecordsOf(assignments[k].bfm_no) :
                  CadenceFlag(gen_call.equipment_list[i], assignments[k].pm_type)
        /\ \A i \in 1..Len(gen_call.equipment_list), t \in PMType :
              LET eq == gen_call.equipment_list[i]
                  r  == check_eligibility(Self, eq, t, gen_call.week_start)
              IN  ~CadenceFlag(eq, t) =>
                      r.status = NOT_DUE /\ r.reason = NotRequiredReason

C14_Witness ==
    /\ Generated
    /\ gen_call.max_assignments >= 2
    /\ weekly_pm_schedules = {}
    /\ assignments # <<>>
    /\ \E i \in ActivePositions(gen_call.equipment_list) :
          LET eq == gen_call.equipment_list[i]
          IN  /\ Unflagged(eq)
              /\ \A j \in RecordsOf(eq.bfm_no) : j = i
              /\ \A k \in 1..Len(assignments) : assignments[k].bfm_no # eq.bfm_no

\* C15: for every equipment_list, every assignment that generate_assignments
\* returns is for a record whose status is exactly 'Active'; records that are
\* Missing, Run to Failure or without a status contribute nothing.
C15_OnlyActiveAssigned ==
    Generated =>
        /\ \A k \in 1..Len(assignments) :
              \E i \in RecordsOf(assignments[k].bfm_no) :
                  gen_call.equipment_list[i].status = "Active"
        /\ \A k \in 1..Len(potential_assignments) :
              \E i \in RecordsOf(potential_assignments[k].bfm_no) :
                  gen_call.equipment_list[i].status = "Active"

C15_Witness ==
    /\ Generated
    /\ gen_call.max_assignments >= 2
    /\ pm_completions = {} /\ weekly_pm_schedules = {}
    /\ Len(gen_call.equipment_list) = 2
    /\ gen_call.equipment_list[1].status \in {"Missing", "Run to Failure", NULL}
    /\ gen_call.equipment_list[1].has_weekly
    /\ gen_call.equipment_list[2].status = "Active"
    /\ gen_call.equipment_list[1].bfm_no # gen_call.equipment_list[2].bfm_no
    /\ Len(assignments) = 1
    /\ assignments[1].bfm_no = gen_call.equipment_list[2].bfm_no


-----------------------------------------------------------------------------
(* Claims about generate_weekly_schedule's roster (RosterSpec)             *)

\* The equipment ids with a row, of any status, in cannot_find_assets
CannotFindIds == {c.bfm_equipment_no : c \in cannot_find_assets}

\* The equipment ids whose status column is Missing or Run to Failure
StatusExcludedIds ==
    {r.bfm_equipment_no : r \in {x \in equipment : x.status \in {"Missing", "Run to Failure"}}}

\* C16 as stated: an equipment id with any row in the cannot-find,
\* run-to-failure or deactivated tables, or whose status is Missing or Run to
\* Failure, never appears in the output of generate_weekly_schedule.
C16_ExcludedNeverScheduled ==
    Generated =>
        \A k \in 1..Len(assignments) :
            assignments[k].bfm_no \notin
                (CannotFindIds \cup run_to_failure_assets \cup deactivated_assets
                    \cup StatusExcludedIds)


-----------------------------------------------------------------------------
(* Claims about the service across calls (Spec)                            *)

\* The scheduler objects of a newly constructed service after the loads of a run
FreshService(week_start) ==
    [BulkLoaded(NewService, week_start, 4) EXCEPT
        !.custom_template_cache = Some(LoadedCustomTemplates)]

C20_RunsOnlyRead ==
    [][pc' \in {"generated", "raised"} => UNCHANGED <<storeVars, priority_map>>]_vars

C20_Witness ==
    /\ pc \in {"generated", "raised"}
    /\ weekly_pm_schedules # {}
    /\ pm_completions # {}
    /\ completion_cache # None /\ completion_cache[1] # <<>>


-----------------------------------------------------------------------------
(* Claims about CompletionRecordRepository (RepoSpec)                       *)

\* The records of a returned list
Records(list) == {list[i] : i \in 1..Len(list)}

\* C18 as stated: with the store unchanged, after any sequence of bulk loads
\* with any arguments, each accessor returns the same records as its per-item
\* fallback query (the query of a repository with nothing loaded) for the
\* arguments it is called with.
C18_AccessorsAsFallbackQuery ==
    /\ repo_call.op = "get_recent_completions" =>
          Records(repo_call.value) =
              Records(get_recent_completions(NewService, repo_call.args[1], repo_call.args[2]))
    /\ repo_call.op = "get_scheduled_pms" =>
          Records(repo_call.value) =
              Records(get_scheduled_pms(NewService, repo_call.args[1], repo_call.args[2]))
    /\ repo_call.op = "get_uncompleted_schedules" =>
          Records(repo_call.value) =
              Records(get_uncompleted_schedules(NewService, repo_call.args[1],
                                                repo_call.args[2], repo_call.args[3]))

\* C19: a call of bulk_load_completions that follows a call with the same
\* window leaves the completion cache exactly as the first call left it.
C19_BulkLoadCompletionsIdempotent ==
    [][(repo_call'.op = "bulk_load_completions" /\ repo_call'.repeat)
          => completion_cache' = completion_cache]_vars

C19_Witness ==
    /\ repo_call.op = "bulk_load_completions"
    /\ repo_call.repeat
    /\ completion_cache # None
    /\ \E b \in DOMAIN completion_cache[1] : Len(completion_cache[1][b]) >= 2


-----------------------------------------------------------------------------
(* Claims about the steps of check_eligibility (EligSpec)                  *)

\* The completion records the checked call gets from the repository
CheckedCompletions ==
    get_recent_completions(Self, elig_call.equipment.bfm_no, CompletionWindowDays)

\* No gate before the generic due-date step answers the checked call
GenericStepDecides ==
    /\ Checked
    /\ CadenceFlag(elig_call.equipment, elig_call.pm_type)
    /\ get_uncompleted_schedules(Self, elig_call.equipment.bfm_no, elig_call.pm_type,
                                 elig_call.week_start) = <<>>
    /\ elig_call.pm_type = ANNUAL => AnnualOverride(Self, elig_call.equipment) = None
    /\ LET recs == CheckedCompletions
           same == OfType(recs, elig_call.pm_type)
       IN  /\ same # <<>> =>
                DaysSince(LatestDate(same)) >= get_minimum_interval(elig_call.pm_type)
           /\ check_cross_pm_conflicts(recs, elig_call.pm_type).status # CONFLICTED
    /\ LET scheduled_pms == get_scheduled_pms(Self, elig_call.week_start,
                                              elig_call.equipment.bfm_no)
       IN  \A i \in 1..Len(scheduled_pms) : scheduled_pms[i].pm_type # elig_call.pm_type

\* (min_days, max_days, ideal) of the reference
RefDays(pm_type) ==
    CASE pm_type = WEEKLY    -> <<7, 10, 7>>
      [] pm_type = MONTHLY   -> <<30, 35, 30>>
      [] pm_type = SIX_MONTH -> <<180, 190, 180>>
      [] pm_type = ANNUAL    -> <<365, 370, 365>>

RefNeverCompleted(pm_type) ==
    CASE pm_type = WEEKLY    -> 1100
      [] pm_type = MONTHLY   -> 1000
      [] pm_type = SIX_MONTH -> 950
      [] pm_type = ANNUAL    -> 900

\* The last date of the reference: the latest completion record of the type,
\* otherwise the parsed equipment-table last date; None when there is none
RefLastDate ==
    LET recs == CheckedCompletions
        dates == {recs[i].completion_date :
                    i \in {j \in 1..Len(recs) : recs[j].pm_type = elig_call.pm_type}}
    IN  IF dates # {} THEN Some(CHOOSE d \in dates : \A o \in dates : o <= d)
        ELSE parse_flexible(LastDateStr(elig_call.equipment, elig_call.pm_type))

\* <<status, priority_score, days_overdue>> of the reference
RefDueDate ==
    LET last == RefLastDate
    IN
    IF last = None
    THEN <<DUE, RefNeverCompleted(elig_call.pm_type), 0>>
    ELSE LET days_since == 0 - last[1]
             min   == RefDays(elig_call.pm_type)[1]
             max   == RefDays(elig_call.pm_type)[2]
             ideal == RefDays(elig_call.pm_type)[3]
             late  == days_since - ideal
         IN  IF days_since < min THEN <<NOT_DUE, 0, 0>>
             ELSE IF days_since > ideal
             THEN <<DUE, IF 500 + late * 10 < 999 THEN 500 + late * 10 ELSE 999, late>>
             ELSE IF days_since <= ideal /\ days_since <= max
             THEN <<DUE, 300 - (IF late < 0 THEN 0 - late ELSE late), 0>>
             ELSE <<DUE, 200, 0>>

\* C21: when no earlier gate fires, the result of check_eligibility is the
\* reference due-date result for every PM type: never completed gives DUE
\* 1100/1000/950/900, fewer than min_days gives NOT_DUE, and from min_days on
\* DUE with the overdue, on-time or flat score of the reference.
C21_GenericStepIsReference ==
    GenericStepDecides =>
        <<result.status, result.priority_score, result.days_overdue>> = RefDueDate

C21_Witness ==
    /\ GenericStepDecides
    /\ elig_call.pm_type = WEEKLY
    /\ OfType(CheckedCompletions, WEEKLY) # <<>>
    /\ elig_call.equipment.last_weekly_date.form = "iso"
    /\ result.status = DUE
    /\ result.priority_score = 999


\* The next_annual_pm column of the checked equipment
SubjectNextAnnual ==
    (CHOOSE r \in equipment :
        r.bfm_equipment_no = elig_call.equipment.bfm_no).next_annual_pm

\* An Annual check of an equipment that requires it, has no stale schedule and
\* has a next-annual date that one of the accepted formats reads
AnnualWithNextDate ==
    /\ Checked
    /\ elig_call.pm_type = ANNUAL
    /\ elig_call.equipment.has_annual
    /\ ~HasStaleSchedule
    /\ parse_flexible(SubjectNextAnnual) # None

\* The override result of the claim for a date days_until days from now:
\* <<status, priority_score, days_overdue>>, or None outside its range
RefOverride(days_until) ==
    IF days_until > 7 THEN Some(<<NOT_DUE, 0, 0>>)
    ELSE IF days_until >= -30
    THEN LET late == IF 0 - days_until > 0 THEN 0 - days_until ELSE 0
         IN  Some(<<DUE, 500 + 10 * late, late>>)
    ELSE None

ResultTriple == <<result.status, result.priority_score, result.days_overdue>>

\* C22 as stated, days_until being the days from today to the next-annual
\* date: days_until > 7 gives NOT_DUE, -30 <= days_until <= 7 gives DUE with
\* priority_score 500 + 10 * max(0, -days_until) and days_overdue
\* max(0, -days_until).
C22_OverrideByCalendarDays ==
    AnnualWithNextDate =>
        LET ref == RefOverride(parse_flexible(SubjectNextAnnual)[1])
        IN  ref # None => ResultTriple = ref[1]


\* The reasons of the two results the annual override gate returns
OverrideReasons == {"Annual PM scheduled for", "Annual PM due by Next Annual PM Date"}

\* C23 as stated: for ANNUAL on equipment with has_annual and no stale
\* schedule, whenever the equipment has a parseable next-annual date, however
\* far in the future or the past, the result of check_eligibility is one of
\* the override gate's and never comes from the generic due-date step or the
\* gates between them.
C23_OverrideAlwaysDecides ==
    AnnualWithNextDate => result.reason \in OverrideReasons


\* The latest completion record of the blocking type that the checked call
\* got is fewer than `days` days old
RefRecent(recs, blocking, days) ==
    LET dates == {recs[i].completion_date :
                    i \in {j \in 1..Len(recs) : recs[j].pm_type = blocking}}
    IN  dates # {} /\ 0 - (CHOOSE d \in dates : \A o \in dates : o <= d) < days

\* The cases in which the claim has the cross-cadence gate answer CONFLICTED
RefCrossConflict(recs, pm_type) ==
    \/ pm_type = ANNUAL /\ (RefRecent(recs, WEEKLY, 7) \/ RefRecent(recs, MONTHLY, 7))
    \/ pm_type = MONTHLY /\ (RefRecent(recs, WEEKLY, 7) \/ RefRecent(recs, ANNUAL, 30))
    \/ pm_type = WEEKLY /\ (RefRecent(recs, MONTHLY, 7) \/ RefRecent(recs, ANNUAL, 7))

CrossReasons ==
    {"Annual blocked - Weekly PM completed", "Annual blocked - Monthly PM completed",
     "Monthly blocked - Weekly PM completed", "Monthly blocked - Annual PM completed",
     "Weekly blocked - Monthly PM completed", "Weekly blocked - Annual PM completed"}

\* No gate before the cross-cadence gate answers the checked call
CrossGateReached ==
    /\ Checked
    /\ CadenceFlag(elig_call.equipment, elig_call.pm_type)
    /\ get_uncompleted_schedules(Self, elig_call.equipment.bfm_no, elig_call.pm_type,
                                 elig_call.week_start) = <<>>
    /\ elig_call.pm_type = ANNUAL => AnnualOverride(Self, elig_call.equipment) = None
    /\ ~RefRecent(CheckedCompletions, elig_call.pm_type,
                  get_minimum_interval(elig_call.pm_type))

\* C24: the cross-cadence gate answers CONFLICTED exactly when the latest
\* completion of a blocking type is recent: ANNUAL by Weekly or Monthly under
\* 7 days, MONTHLY by Weekly under 7 or Annual under 30 days, WEEKLY by Monthly
\* or Annual under 7 days, and never for SIX_MONTH; a check that reaches the
\* gate returns the gate's CONFLICTED in exactly those cases.
C24_CrossGateExactCases ==
    Checked =>
        LET recs == CheckedCompletions
        IN  /\ \A t \in PMType :
                  (check_cross_pm_conflicts(recs, t).status = CONFLICTED)
                      <=> RefCrossConflict(recs, t)
            /\ result.reason \in CrossReasons => RefCrossConflict(recs, elig_call.pm_type)
            /\ CrossGateReached =>
                  (RefCrossConflict(recs, elig_call.pm_type)
                      <=> (result.status = CONFLICTED /\ result.reason \in CrossReasons))

C24_Witness ==
    /\ CrossGateReached
    /\ elig_call.pm_type = MONTHLY
    /\ RefRecent(CheckedCompletions, ANNUAL, 30)
    /\ ~RefRecent(CheckedCompletions, ANNUAL, 7)
    /\ ~RefRecent(CheckedCompletions, WEEKLY, 7)
    /\ result.status = CONFLICTED
    /\ result.reason = "Monthly blocked - Annual PM completed"


-----------------------------------------------------------------------------
(* Claims about the order of reads and checks in a run (RunSpec)           *)

\* The positions of the log at which check_eligibility is called
CheckPositions == {i \in DOMAIN run_log : run_log[i][1] = "check_eligibility"}

\* The positions of the log at which a query is issued
ReadPositions == {i \in DOMAIN run_log : run_log[i][1] = "execute"}

\* C25: in a generate_weekly_schedule call every data-store read comes before
\* the first check_eligibility call: once a check has started, no query is
\* issued until the call returns.
C25_ReadsBeforeFirstCheck ==
    \A i \in CheckPositions : \A j \in ReadPositions : j < i

-----------------------------------------------------------------------------
(* Claims about bulk_load_completions and unparseable rows (RepoSpec)      *)

\* The result set of the query of bulk_load_completions(days) for one
\* equipment id, newest first
ResultSetOf(bfm_no, days) ==
    OrderByDateDesc({r \in pm_completions :
                        r.bfm_equipment_no = bfm_no /\ InWindow(r, days)})

\* A row whose completion_date reads as '%Y-%m-%d'
Parseable(row) == row.completion_date.form = "iso"

\* The rows a list of completion records was made from, up to the cadence
RowsOfRecords(records) ==
    [i \in DOMAIN records |->
        <<records[i].bfm_no, records[i].completion_date, records[i].technician>>]

\* The parseable rows of a result set, in its order
ParseableRows(rows) ==
    LET kept == SelectSeq(rows, Parseable)
    IN  [i \in DOMAIN kept |->
            <<kept[i].bfm_equipment_no, kept[i].completion_date.day,
              kept[i].technician_name>>]

\* C26: bulk_load_completions returns, and its cache holds for every equipment
\* id exactly the rows of the result set whose date is parseable, in the
\* result set's newest-first order; an id has an entry only if it has such a row.
C26_UnparseableRowsOnlySkipped ==
    repo_call.op = "bulk_load_completions" =>
        /\ completion_cache # None
        /\ \A b \in RepoIds :
              LET kept == ParseableRows(ResultSetOf(b, repo_call.args[1]))
              IN  /\ b \in DOMAIN completion_cache[1] <=> kept # <<>>
                  /\ RowsOfRecords(GetOrEmpty(completion_cache[1], b)) = kept

C26_Witness ==
    /\ repo_call.op = "bulk_load_completions"
    /\ LET rows == ResultSetOf(1, repo_call.args[1])
       IN  /\ Len(rows) = 3 /\ Parseable(rows[1]) /\ ~Parseable(rows[2])
           /\ Parseable(rows[3])
           /\ Len(completion_cache[1][1]) = 2
    /\ Len(ResultSetOf(2, repo_call.args[1])) = 1
    /\ 2 \notin DOMAIN completion_cache[1]

-----------------------------------------------------------------------------
(* Claims about date strings no format reads (EligSpec)                    *)

\* A date string that is empty or matches none of the five formats
Unreadable(date_string) == date_string.form \in {"null", "empty", "garbage"}

\* C27: check_eligibility returns a result whatever the date strings are.
\* When the due-date step is reached with no completion record of the type and
\* an empty or unreadable equipment-table last date, the result is the
\* never-completed DUE result (1100/1000/950/900).  When the next-annual string
\* of an Annual check matches no format, the override gate is skipped: the
\* result is the one of the later gates.
C27_UnreadableDatesNeverRaise ==
    Checked =>
        /\ result.status \in PMStatus
        /\ (/\ GenericStepDecides
            /\ OfType(CheckedCompletions, elig_call.pm_type) = <<>>
            /\ Unreadable(LastDateStr(elig_call.equipment, elig_call.pm_type)))
              => /\ ResultTriple = <<DUE, RefNeverCompleted(elig_call.pm_type), 0>>
                 /\ result.reason = "PM never completed - HIGH PRIORITY"
        /\ (/\ elig_call.pm_type = ANNUAL
            /\ elig_call.equipment.has_annual
            /\ ~HasStaleSchedule
            /\ SubjectNextAnnual.form = "garbage")
              => /\ result.reason \notin OverrideReasons
                 /\ result = CheckFromRecentCompletions(Self, elig_call.equipment, ANNUAL,
                                                        elig_call.week_start)

C27_Witness ==
    /\ GenericStepDecides
    /\ elig_call.pm_type = ANNUAL
    /\ SubjectNextAnnual.form = "garbage"
    /\ elig_call.equipment.last_annual_date.form = "empty"
    /\ OfType(CheckedCompletions, ANNUAL) = <<>>
    /\ result.status = DUE
    /\ result.priority_score = 900

-----------------------------------------------------------------------------
(* Claims about the scores of check_eligibility (EligSpec)                 *)

\* The scores a DUE result may carry
DueScores == {300} \cup (500..999) \cup {1000, 1100}

\* C29: every DUE result of check_eligibility has a priority_score of 300, of
\* 500 to 999, or of 1000 or 1100 (never the flat 200, nor a score between 200
\* and 300); every other result has priority_score 0 and days_overdue 0.
C29_ScoresOfResults ==
    Checked =>
        IF result.status = DUE
        THEN result.priority_score \in DueScores
        ELSE result.priority_score = 0 /\ result.days_overdue = 0

C29_Witness ==
    /\ GenericStepDecides
    /\ RefLastDate # None
    /\ 0 - RefLastDate[1] = RefDays(elig_call.pm_type)[1]
    /\ result.status = DUE
    /\ result.priority_score = 300

-----------------------------------------------------------------------------
(* Claims about the sort and the cut of generate_assignments (AssignSpec)  *)

\* The sort key of the claim for a candidate: no custom template (0 before 1),
\* the priority of its equipment, the negated score
RefKey(x) ==
    <<IF x.has_custom_template THEN 0 ELSE 1,
      EquipmentPriorityOf(gen_call.equipment_list, x.bfm_no),
      0 - x.priority_score>>

\* Key k1 comes strictly before key k2
RefBefore(k1, k2) ==
    \/ k1[1] < k2[1]
    \/ k1[1] = k2[1] /\ k1[2] < k2[2]
    \/ k1[1] = k2[1] /\ k1[2] = k2[2] /\ k1[3] < k2[3]

\* The place in the sorted list of the candidate found k-th: behind every
\* candidate of smaller key and every candidate of equal key found before it
RefPlace(found, k) ==
    1 + Cardinality({m \in 1..Len(found) :
            \/ RefBefore(RefKey(found[m]), RefKey(found[k]))
            \/ RefKey(found[m]) = RefKey(found[k]) /\ m < k})

\* C28: for N >= 0 generate_assignments returns the first min(N, number of
\* candidates) elements of the DUE candidates sorted by (no custom template,
\* equipment priority, -priority_score), candidates of equal key in the order
\* of equipment_list; so no candidate left out has a strictly smaller key than
\* a returned one.
C28_FirstNOfStableSort ==
    (Generated /\ gen_call.max_assignments >= 0) =>
        LET found == FoundOrder
            kept == IF gen_call.max_assignments <= Len(found)
                    THEN gen_call.max_assignments ELSE Len(found)
        IN  /\ Len(assignments) = kept
            /\ \A k \in 1..Len(found) :
                  LET place == RefPlace(found, k)
                  IN  IF place <= kept THEN assignments[place] = found[k]
                      ELSE \A i \in 1..kept :
                              ~RefBefore(RefKey(found[k]), RefKey(assignments[i]))

\* Two candidates of equal key and room for one: the one found first is returned.
C28_Witness ==
    /\ Generated
    /\ gen_call.max_assignments = 1
    /\ Len(FoundOrder) = 2
    /\ FoundOrder[1] # FoundOrder[2]
    /\ RefKey(FoundOrder[1]) = RefKey(FoundOrder[2])
    /\ assignments = <<FoundOrder[1]>>

-----------------------------------------------------------------------------
(* Claims about the priority lists (PrioritySpec)                          *)

\* The priority list of a tier holds the id: one of its cells is the id, as a
\* text (whitespace around it aside) or as a number
ListHolds(file, bfm_no) ==
    /\ file.kind = "list"
    /\ \E c \in file.BFM :
          IF c.type = "str" THEN Strip(c.bfm) = Strip(bfm_no) ELSE c.bfm = Strip(bfm_no)

\* The tiers whose list holds the id
TiersOf(bfm_no) == {t \in 1..3 : ListHolds(priority_files[t], bfm_no)}

\* C30: the priority of every item of the loaded roster is 99 when its id is in
\* none of the three priority lists, and otherwise the tier of the last list,
\* in the order tier 1, 2, 3, that holds it.
C30_PriorityOfLastList ==
    pc = "generated" =>
        \A i \in 1..Len(gen_call.equipment_list) :
            LET eq == gen_call.equipment_list[i]
                tiers == TiersOf(eq.bfm_no)
            IN  eq.priority = IF tiers = {} THEN 99
                              ELSE CHOOSE t \in tiers : \A o \in tiers : o <= t

====
